---- MODULE Spec2Model ----
(***************************************************************************)
(* Model of the execution-critical path of the sniffer bot:                *)
(*   - the index slot manager (src/main/bot/src/nonce_manager.rs)          *)
(*   - the buy engine state machine (src/main/bot/src/buy_engine.rs)       *)
(* Every await point of the Rust code that another task can interleave     *)
(* with is a separate step of the model.                                   *)
(***************************************************************************)
EXTENDS Integers, Sequences, FiniteSets, TLC

(***************************************************************************)
(* Bounds of the model.                                                    *)
(***************************************************************************)
\* capacity passed to IndexSlotManager::new
Capacity == 2
\* number of concurrent tasks using the slot manager on its own
NumClients == 3
\* spawned release tasks that may be pending at once (per index and kind)
MaxSpawned == 1
\* entries the free queue may hold beyond its capacity before the model
\* stops following a run
MaxExtraFree == 1

Clients == 1..NumClients
Idx == 0..(Capacity - 1)
NoIdx == Capacity + 7
\* the arguments release_nonce is called with: every index and one past the range
AnyIdx == 0..Capacity

VARIABLES
  sem,          \* NonceManagerInner.sem: available permits
  free,         \* NonceManagerInner.free: VecDeque<usize>
  allocated,    \* NonceManagerInner.allocated: HashSet<usize>
  freeLocked,   \* the tokio Mutex around `free` is held by some task
  dropTasks,    \* tasks spawned by IndexLease::drop, per index: of leases not yet
                \* released (live) and of leases released by hand before (stale)
  legacyTasks,  \* tasks spawned by release_nonce's fallback path, per index
  cl,           \* the slot manager's direct clients
  app_state,    \* Arc<Mutex<AppState>>: mode, active_token, last_buy_price, holdings_percent
  consecutive_failures, \* BackoffState.consecutive_failures
  pending_buy,  \* BuyEngine.pending_buy of the engine that runs the main loop
  chan,         \* candidates buffered in the mpsc channel behind candidate_rx
  chanOpen,     \* a sender of the candidate channel is still alive
  cfg,          \* Config.nonce_count, BuyEngine.tx_builder, the mock-mode feature
  by,           \* the tasks running try_buy: the main loop and try_buy_with_guards
  sl,           \* the tasks calling sell
  endpoints,    \* RpcManager::endpoints, each given by the answer it makes
  rpc_cfg,      \* RpcManager::config
  txs,          \* the transactions passed to send_on_many_rpc
  join_set,     \* the JoinSet of the call: one record per spawned task
  completed,    \* the tasks that have finished, in the order join_next yields them
  fatal_errors, \* the local counter of send_on_many_rpc
  send,         \* the position and the return value of send_on_many_rpc
  map,          \* CandidateBuffer.map: mint -> (candidate, insertion instant, sequence)
  insertion_order, \* CandidateBuffer.insertion_order: VecDeque<(Pubkey, u64)>
  ttl,          \* CandidateBuffer.ttl
  max_size,     \* CandidateBuffer.max_size
  sequence,     \* CandidateBuffer.sequence
  now,          \* Instant::now()
  buf_ret,      \* the last call on the buffer and what it returned
  buf_hist,     \* what has been pushed and popped since CandidateBuffer::new
  runner_cfg,   \* SnifferRunner.cfg: wss_required, http_fallback_enabled, rpc_endpoints
  wss_healthy,  \* what WssSource::is_healthy answers
  http_healthy, \* HttpSource.healthy
  http_tasks,   \* the tasks running HttpSource::run, by where they are
  tick,         \* what the last turn of the watchdog loop did
  app_lock,     \* the task holding the guard of the app_state Mutex, if any
  backoff_ret,  \* the last call of should_backoff: the count it read, what it returned
  wss_cfg,      \* Config.wss_reconnect_backoff_ms, wss_reconnect_backoff_max_ms
  wss_pc,       \* where WssSource::run is
  wss_backoff,  \* the local `backoff` of WssSource::run
  wss_slept     \* the reconnect sleeps made since the last subscription, in order

slotVars == <<sem, free, allocated, freeLocked, dropTasks, legacyTasks>>

engineVars == <<app_state, consecutive_failures, pending_buy, chan, chanOpen, cfg, by, sl>>

sendVars == <<endpoints, rpc_cfg, txs, join_set, completed, fatal_errors, send>>

bufVars == <<map, insertion_order, ttl, max_size, sequence, now, buf_ret, buf_hist>>

runnerVars == <<runner_cfg, wss_healthy, http_healthy, http_tasks, tick>>

lockVars == <<app_lock>>

backoffVars == <<backoff_ret>>

wssVars == <<wss_cfg, wss_pc, wss_backoff, wss_slept>>

vars == <<sem, free, allocated, freeLocked, dropTasks, legacyTasks, cl,
          app_state, consecutive_failures, pending_buy, chan, chanOpen, cfg, by, sl,
          endpoints, rpc_cfg, txs, join_set, completed, fatal_errors, send,
          map, insertion_order, ttl, max_size, sequence, now, buf_ret, buf_hist,
          runner_cfg, wss_healthy, http_healthy, http_tasks, tick,
          app_lock, backoff_ret, wss_cfg, wss_pc, wss_backoff, wss_slept>>

(***************************************************************************)
(* IndexSlotManager::new                                                   *)
(***************************************************************************)
IndexSlotManager_new ==
  /\ sem = Capacity
  /\ free = [i \in 1..Capacity |-> i - 1]
  /\ allocated = {}
  /\ freeLocked = FALSE
  /\ dropTasks = [i \in Idx |-> [live |-> 0, stale |-> 0]]
  /\ legacyTasks = [i \in AnyIdx |-> 0]

(***************************************************************************)
(* Building blocks shared by acquire_index and acquire_nonce.              *)
(***************************************************************************)
\* self.sem.acquire().await : suspends the caller until a permit is there
sem_acquire ==
  /\ sem > 0
  /\ sem' = sem - 1

\* self.free.lock().await
free_lock ==
  /\ ~freeLocked
  /\ freeLocked' = TRUE

\* what `if let Some(idx) = free_guard.pop_front()` and the range check yield
acquire_ok == free # <<>> /\ Head(free) < Capacity

acquire_idx == IF acquire_ok THEN Head(free) ELSE NoIdx

\* the critical section of acquire_index / acquire_nonce, entered with a
\* permit and the lock on `free`; on the error paths the permit is dropped
\* (returned to the semaphore), on success it is forgotten
acquire_critical_section ==
  /\ free' = IF free = <<>> THEN free ELSE Tail(free)
  /\ allocated' = IF acquire_ok THEN allocated \cup {Head(free)} ELSE allocated
  /\ sem' = IF acquire_ok THEN sem ELSE sem + 1
  /\ freeLocked' = FALSE

\* the body of release_index(index), entered with the lock on `free`
release_index_ok(index) == index \in allocated

release_index_body(index) ==
  /\ allocated' = allocated \ {index}
  /\ free' = IF release_index_ok(index) THEN Append(free, index) ELSE free
  /\ sem' = IF release_index_ok(index) THEN sem + 1 ELSE sem

\* release_nonce(idx): try_lock on `free`; on success push and add a permit,
\* otherwise spawn a task that does so later
release_nonce(idx) ==
  /\ IF ~freeLocked
       THEN /\ free' = Append(free, idx)
            /\ sem' = sem + 1
            /\ UNCHANGED legacyTasks
       ELSE /\ legacyTasks' = [legacyTasks EXCEPT ![idx] = @ + 1]
            /\ UNCHANGED <<free, sem>>
  /\ UNCHANGED <<allocated, freeLocked, dropTasks>>

\* the free queue has room for another entry within the model's bound
FreeHasRoom == Len(free) < Capacity + MaxExtraFree

\* the semaphore has room for another permit within the model's bound
SemHasRoom == sem < Capacity + MaxExtraFree

\* release_nonce stays within the model's bounds
release_nonce_enabled(idx) ==
  IF ~freeLocked THEN FreeHasRoom /\ SemHasRoom ELSE legacyTasks[idx] < MaxSpawned

(***************************************************************************)
(* Tasks spawned by the slot manager.                                      *)
(***************************************************************************)
\* tokio::spawn(async move { let _ = manager.release_index(index).await; })
SpawnedReleaseIndex(i) ==
  /\ ~freeLocked
  /\ FreeHasRoom
  /\ release_index_body(i)
  /\ \E kind \in {"live", "stale"} :
       /\ dropTasks[i][kind] > 0
       /\ dropTasks' = [dropTasks EXCEPT ![i][kind] = @ - 1]
  /\ UNCHANGED <<freeLocked, legacyTasks>>
  /\ UNCHANGED <<cl, engineVars, sendVars, bufVars, runnerVars, lockVars, backoffVars, wssVars>>

\* tokio::spawn(async move { free.lock().await.push_back(idx); sem.add_permits(1); })
SpawnedReleaseNonce(i) ==
  /\ legacyTasks[i] > 0
  /\ ~freeLocked
  /\ FreeHasRoom
  /\ SemHasRoom
  /\ free' = Append(free, i)
  /\ sem' = sem + 1
  /\ legacyTasks' = [legacyTasks EXCEPT ![i] = @ - 1]
  /\ UNCHANGED <<allocated, freeLocked, dropTasks>>
  /\ UNCHANGED <<cl, engineVars, sendVars, bufVars, runnerVars, lockVars, backoffVars, wssVars>>

(***************************************************************************)
(* Direct clients of the slot manager: each task takes one slot at a time, *)
(* through the lease API (acquire_index, release_index, drop of the lease) *)
(* or through the legacy API (acquire_nonce, release_nonce).               *)
(***************************************************************************)
ClientInit == cl = [c \in Clients |-> [pc |-> "idle", api |-> "lease", idx |-> NoIdx]]

\* acquire_index / acquire_nonce up to the semaphore
ClientAcquireSem(c) ==
  /\ cl[c].pc = "idle"
  /\ sem_acquire
  /\ \E api \in {"lease", "legacy"} :
       cl' = [cl EXCEPT ![c] = [pc |-> "wait_lock", api |-> api, idx |-> NoIdx]]
  /\ UNCHANGED <<free, allocated, freeLocked, dropTasks, legacyTasks>>
  /\ UNCHANGED <<engineVars, sendVars, bufVars, runnerVars, lockVars, backoffVars, wssVars>>

ClientAcquireLock(c) ==
  /\ cl[c].pc = "wait_lock"
  /\ free_lock
  /\ cl' = [cl EXCEPT ![c].pc = "locked"]
  /\ UNCHANGED <<sem, free, allocated, dropTasks, legacyTasks>>
  /\ UNCHANGED <<engineVars, sendVars, bufVars, runnerVars, lockVars, backoffVars, wssVars>>

ClientAcquireBody(c) ==
  /\ cl[c].pc = "locked"
  /\ acquire_critical_section
  /\ cl' = [cl EXCEPT ![c].pc = IF acquire_ok THEN "holding" ELSE "idle",
                      ![c].idx = acquire_idx]
  /\ UNCHANGED <<dropTasks, legacyTasks>>
  /\ UNCHANGED <<engineVars, sendVars, bufVars, runnerVars, lockVars, backoffVars, wssVars>>

\* manager.release_index(lease.index()).await : take the lock ...
ClientReleaseIndexLock(c) ==
  /\ cl[c].pc = "holding"
  /\ cl[c].api = "lease"
  /\ free_lock
  /\ cl' = [cl EXCEPT ![c].pc = "release_locked"]
  /\ UNCHANGED <<sem, free, allocated, dropTasks, legacyTasks>>
  /\ UNCHANGED <<engineVars, sendVars, bufVars, runnerVars, lockVars, backoffVars, wssVars>>

\* ... and run the body; the lease value is still alive afterwards
ClientReleaseIndexBody(c) ==
  /\ cl[c].pc = "release_locked"
  /\ FreeHasRoom
  /\ release_index_body(cl[c].idx)
  /\ freeLocked' = FALSE
  /\ cl' = [cl EXCEPT ![c].pc = "released"]
  /\ UNCHANGED <<dropTasks, legacyTasks>>
  /\ UNCHANGED <<engineVars, sendVars, bufVars, runnerVars, lockVars, backoffVars, wssVars>>

\* impl Drop for IndexLease: spawns release_index(index)
ClientDropLease(c) ==
  /\ cl[c].pc \in {"holding", "released"}
  /\ cl[c].api = "lease"
  /\ dropTasks[cl[c].idx].live + dropTasks[cl[c].idx].stale < MaxSpawned
  /\ dropTasks' = [dropTasks EXCEPT
                     ![cl[c].idx][IF cl[c].pc = "released" THEN "stale" ELSE "live"] = @ + 1]
  /\ cl' = [cl EXCEPT ![c] = [pc |-> "idle", api |-> "lease", idx |-> NoIdx]]
  /\ UNCHANGED <<sem, free, allocated, freeLocked, legacyTasks>>
  /\ UNCHANGED <<engineVars, sendVars, bufVars, runnerVars, lockVars, backoffVars, wssVars>>

\* manager.release_nonce(idx) by the task that got idx from acquire_nonce
ClientReleaseNonce(c) ==
  /\ cl[c].pc = "holding"
  /\ cl[c].api = "legacy"
  /\ release_nonce_enabled(cl[c].idx)
  /\ release_nonce(cl[c].idx)
  /\ cl' = [cl EXCEPT ![c] = [pc |-> "idle", api |-> "lease", idx |-> NoIdx]]
  /\ UNCHANGED <<engineVars, sendVars, bufVars, runnerVars, lockVars, backoffVars, wssVars>>

\* manager.release_nonce(idx) by a caller that does not hold idx: an index
\* out of range, one never acquired, or one released before
StrayReleaseNonce(idx) ==
  /\ \A c \in Clients : cl[c].pc \in {"holding", "release_locked"} => cl[c].idx # idx
  /\ release_nonce_enabled(idx)
  /\ release_nonce(idx)
  /\ UNCHANGED <<cl, engineVars, sendVars, bufVars, runnerVars, lockVars, backoffVars, wssVars>>

(***************************************************************************)
(* The buy engine.                                                         *)
(***************************************************************************)
\* fixed-point scale of holdings_percent and of sell percentages: 1.0 is Unit
Unit == 4
\* candidates the channel buffers at once
MaxChan == 1
\* number of tasks calling sell while the main loop runs
NumSellers == 1

Sellers == 1..NumSellers
\* the sellers of the specification of concurrent sell calls
RaceSellers == 1..(NumSellers + 1)
Buyers == {"run", "guard"}

\* f64::EPSILON is smaller than one unit of the fixed-point scale
EPSILON == 0
\* a NaN percentage, kept apart from every finite value
NaN == Unit * 1000

\* Pubkey::default() and two other mints
DefaultPubkey == 0
NoMint == 0 - 1
NoCandidate == [mint |-> NoMint, creator |-> NoMint, program |-> "none"]

\* candidates the sniffer sends: two good ones, one with the zero pubkey as
\* mint, one with the zero pubkey as creator, one with an empty program name
\* and one of another venue
CandidateInputs ==
  { [mint |-> 1, creator |-> 1, program |-> "pump.fun"],
    [mint |-> 2, creator |-> 1, program |-> "pump.fun"],
    [mint |-> DefaultPubkey, creator |-> 1, program |-> "pump.fun"],
    [mint |-> 1, creator |-> DefaultPubkey, program |-> "pump.fun"],
    [mint |-> 1, creator |-> 1, program |-> ""],
    [mint |-> 1, creator |-> 1, program |-> "raydium"] }

\* the candidates among them that pass the filters
BuyableInputs ==
  {c \in CandidateInputs :
     c.mint # DefaultPubkey /\ c.creator # DefaultPubkey /\ c.program = "pump.fun"}

\* what the validator finds from its own history and the clock: the slot is
\* not far behind the last one seen, the timestamp is within five minutes of
\* now, the mint has been seen fewer than five times in the last minute
ValidatorAnswers == [slot_ok : BOOLEAN, timestamp_ok : BOOLEAN, rate_ok : BOOLEAN]

\* one of them
OneInput == {c \in BuyableInputs : c.mint = 1}

\* percentages passed to sell: below range, in range, above range, NaN
PercentInputs == {0 - 1, 0, Unit \div 2, Unit, Unit + 1, NaN}

\* get_execution_price_mock
get_execution_price_mock == "0.000001"
NoPrice == "None"

Sniffing == [tag |-> "Sniffing", mint |-> NoMint]
QuantumManual == [tag |-> "QuantumManual", mint |-> NoMint]
PassiveToken(m) == [tag |-> "PassiveToken", mint |-> m]

\* AppState::is_sniffing
is_sniffing(st) == st.mode.tag = "Sniffing"

\* the AppState main.rs builds, or the same in manual-suggestion mode
AppStateInit ==
  \E m \in {Sniffing, QuantumManual} :
    app_state = [mode |-> m, active_token |-> NoCandidate,
                 last_buy_price |-> NoPrice, holdings_percent |-> 0]

\* the tasks that lock app_state: the main loop and the sell callers
RunTask == [kind |-> "run", id |-> 0]
SellTask(s) == [kind |-> "sell", id |-> s]

\* nobody holds the guard of the app_state Mutex
NoTask == [kind |-> "none", id |-> 0]

\* Option<Duration>: None, and Some(Duration::from_millis(ms))
None == [some |-> FALSE, ms |-> 0]
Some(ms) == [some |-> TRUE, ms |-> ms]

\* should_backoff has not been called
NoCall == [called |-> FALSE, failures |-> 0, delay |-> None]

BuyerIdle == [pc |-> "idle", cand |-> NoCandidate, acquired |-> <<>>, txs |-> 0,
              i |-> 0, guards |-> <<>>, res |-> "none"]

\* the main loop is not running, and at the top of its loop
RunStopped == [BuyerIdle EXCEPT !.pc = "stopped"]

RunAtLoop == [BuyerIdle EXCEPT !.pc = "loop"]

SellerIdle == [pc |-> "idle", via |-> "engine", pct |-> 0, mint |-> NoMint,
               new_holdings |-> 0, sent |-> FALSE, result |-> "none"]

\* BuyEngine::new, with the configuration the engine is built with
BuyEngine_fields ==
  /\ AppStateInit
  /\ pending_buy = FALSE
  /\ chan = <<>>
  /\ chanOpen = TRUE
  /\ cfg \in [nonce_count : 1..Capacity, tx_builder : BOOLEAN, mock_mode : BOOLEAN]
  /\ by = [b \in Buyers |-> IF b = "run" THEN RunStopped ELSE BuyerIdle]
  /\ sl = [s \in RaceSellers |-> SellerIdle]
  /\ app_lock = NoTask
  /\ backoff_ret = NoCall

BuyEngine_new ==
  /\ BuyEngine_fields
  /\ consecutive_failures = 0

(***************************************************************************)
(* The candidate channel's sending side.                                   *)
(***************************************************************************)
SnifferSend(c) ==
  /\ chanOpen
  /\ Len(chan) < MaxChan
  /\ chan' = Append(chan, c)
  /\ UNCHANGED <<app_state, consecutive_failures, pending_buy, chanOpen, cfg, by, sl>>
  /\ UNCHANGED <<slotVars, cl, sendVars, bufVars, runnerVars, lockVars, backoffVars, wssVars>>

\* the last sender is dropped
SnifferClose ==
  /\ chanOpen
  /\ chanOpen' = FALSE
  /\ UNCHANGED <<app_state, consecutive_failures, pending_buy, chan, cfg, by, sl>>
  /\ UNCHANGED <<slotVars, cl, sendVars, bufVars, runnerVars, lockVars, backoffVars, wssVars>>

(***************************************************************************)
(* BackoffState                                                            *)
(***************************************************************************)
\* BackoffState::new
base_delay_ms == 100
max_delay_ms == 10000
backoff_multiplier == 2

\* consecutive_failures is an AtomicU32. The model keeps the 32 bits as the
\* two's complement number they spell, so that a count of 2^31 and more is
\* the negative number 2^32 below it and every value fits 32 signed bits;
\* this is also what `as i32` makes of the u32
I32Max == 2147483647
I32Min == (0 - I32Max) - 1

\* u32 wrapping add and subtract of one
wrapping_inc(x) == IF x = I32Max THEN I32Min ELSE x + 1
wrapping_dec(x) == IF x = I32Min THEN I32Max ELSE x - 1

Min(a, b) == IF a <= b THEN a ELSE b

\* (d * backoff_multiplier.powi(e)).min(max_delay_ms) for e >= 0: the product
\* only grows, so the multiplication stops at the maximum
RECURSIVE grow(_, _)
grow(d, e) ==
  IF e = 0 \/ d >= max_delay_ms THEN Min(d, max_delay_ms)
  ELSE grow(d * backoff_multiplier, e - 1)

\* (d * backoff_multiplier.powi(e)) as u64 for e < 0: the power is a
\* reciprocal and the cast drops the fraction
RECURSIVE shrink(_, _)
shrink(d, e) ==
  IF e = 0 \/ d = 0 THEN d
  ELSE shrink(d \div backoff_multiplier, e + 1)

\* delay_ms of should_backoff for failures >= 1: the exponent is
\* (failures - 1) as i32
delay_ms(failures) ==
  LET e == wrapping_dec(failures)
  IN IF e >= 0 THEN grow(base_delay_ms, e) ELSE shrink(base_delay_ms, e)

\* BackoffState::should_backoff on a count
should_backoff_of(failures) ==
  IF failures = 0 THEN None ELSE Some(delay_ms(failures))

\* should_backoff().is_some()
should_backoff == should_backoff_of(consecutive_failures).some

\* record_success: swap(0)
record_success == consecutive_failures' = 0

\* record_failure: fetch_add(1)
record_failure == consecutive_failures' = wrapping_inc(consecutive_failures)

(***************************************************************************)
(* Candidate filters of the main loop.                                     *)
(***************************************************************************)
\* validator().validate_candidate(&candidate).is_valid()
validate_candidate(c, v) ==
  /\ c.mint # DefaultPubkey
  /\ c.creator # DefaultPubkey
  /\ v.slot_ok
  /\ c.program # ""
  /\ v.timestamp_ok

\* validator().check_mint_rate_limit(&candidate.mint, 60, 5)
check_mint_rate_limit(v) == v.rate_ok

\* is_candidate_interesting
is_candidate_interesting(c) == c.program = "pump.fun"

(***************************************************************************)
(* BuyEngine::run, the main loop.                                          *)
(***************************************************************************)
\* a call on the engine itself through &self (sell, try_buy_with_guards) is
\* in flight; run takes &mut self, so the borrow rules keep the two apart
EngineBorrowed ==
  \/ by["guard"].pc # "idle"
  \/ \E s \in RaceSellers : sl[s].pc # "idle" /\ sl[s].via = "engine"

WaitsForAppState_across_broadcast(t) ==
  IF t.kind = "run"
    THEN \/ by["run"].pc = "loop"
         \/ by["run"].pc = "return" /\ by["run"].res = "ok"
    ELSE sl[t.id].pc \in {"snapshot", "broadcast"}

\* the task is at self.app_state.lock().await: the main loop at the top of the
\* loop and after a successful buy, sell before its snapshot and in its Ok(sig)
\* arm
WaitsForAppState(t) ==
  IF t.kind = "run"
    THEN \/ by["run"].pc = "loop"
         \/ by["run"].pc = "return" /\ by["run"].res = "ok"
    ELSE sl[t.id].pc \in {"snapshot", "commit"}

\* app_state.lock().await returns the guard
AppStateLock(t) ==
  /\ app_lock = NoTask
  /\ WaitsForAppState(t)
  /\ app_lock' = t
  /\ UNCHANGED <<slotVars, cl, engineVars, sendVars, bufVars, runnerVars, backoffVars, wssVars>>

\* engine.run() is called
RunStart ==
  /\ by["run"].pc = "stopped"
  /\ ~EngineBorrowed
  /\ by' = [by EXCEPT !["run"] = RunAtLoop]
  /\ UNCHANGED <<app_state, consecutive_failures, pending_buy, chan, chanOpen, cfg, sl>>
  /\ UNCHANGED <<slotVars, cl, sendVars, bufVars, runnerVars, lockVars, backoffVars, wssVars>>

RunLoopTop_always_recv ==
  /\ by["run"].pc = "loop"
  /\ app_lock = RunTask
  /\ app_lock' = NoTask
  /\ by' = [by EXCEPT !["run"].pc = "recv"]
  /\ UNCHANGED <<app_state, consecutive_failures, pending_buy, chan, chanOpen, cfg, sl>>
  /\ UNCHANGED <<slotVars, cl, sendVars, bufVars, runnerVars, backoffVars, wssVars>>

\* top of the loop: snapshot is_sniffing under the lock, consult the backoff
RunLoopTop ==
  /\ by["run"].pc = "loop"
  /\ app_lock = RunTask
  /\ app_lock' = NoTask
  /\ by' = [by EXCEPT !["run"].pc =
              IF is_sniffing(app_state)
                THEN (IF should_backoff THEN "backoff_sleep" ELSE "recv")
                ELSE "recv_passive"]
  /\ UNCHANGED <<app_state, consecutive_failures, pending_buy, chan, chanOpen, cfg, sl>>
  /\ UNCHANGED <<slotVars, cl, sendVars, bufVars, runnerVars, backoffVars, wssVars>>

\* sleep(backoff_duration).await; continue
RunBackoffSleep ==
  /\ by["run"].pc = "backoff_sleep"
  /\ by' = [by EXCEPT !["run"].pc = "loop"]
  /\ UNCHANGED <<app_state, consecutive_failures, pending_buy, chan, chanOpen, cfg, sl>>
  /\ UNCHANGED <<slotVars, cl, sendVars, bufVars, runnerVars, lockVars, backoffVars, wssVars>>

RunRecvCandidate_unfiltered(v) ==
  /\ by["run"].pc = "recv"
  /\ chan # <<>>
  /\ chan' = Tail(chan)
  /\ LET c == Head(chan)
         accepted == validate_candidate(c, v) /\ check_mint_rate_limit(v)
     IN by' = [by EXCEPT !["run"] =
                 IF accepted
                   THEN [BuyerIdle EXCEPT !.pc = "acquire_sem", !.cand = c]
                   ELSE RunAtLoop]
  /\ UNCHANGED <<app_state, consecutive_failures, pending_buy, chanOpen, cfg, sl>>
  /\ UNCHANGED <<slotVars, cl, sendVars, bufVars, runnerVars, lockVars, backoffVars, wssVars>>

\* Ok(Some(candidate)): the filters, then the start of try_buy
RunRecvCandidate(v) ==
  /\ by["run"].pc = "recv"
  /\ chan # <<>>
  /\ chan' = Tail(chan)
  /\ LET c == Head(chan)
         accepted == /\ validate_candidate(c, v)
                     /\ check_mint_rate_limit(v)
                     /\ is_candidate_interesting(c)
     IN by' = [by EXCEPT !["run"] =
                 IF accepted
                   THEN [BuyerIdle EXCEPT !.pc = "acquire_sem", !.cand = c]
                   ELSE RunAtLoop]
  /\ UNCHANGED <<app_state, consecutive_failures, pending_buy, chanOpen, cfg, sl>>
  /\ UNCHANGED <<slotVars, cl, sendVars, bufVars, runnerVars, lockVars, backoffVars, wssVars>>

\* Ok(None): the channel is closed and drained
RunRecvClosed ==
  /\ by["run"].pc \in {"recv", "recv_passive"}
  /\ chan = <<>>
  /\ ~chanOpen
  /\ by' = [by EXCEPT !["run"].pc = "stopped"]
  /\ UNCHANGED <<app_state, consecutive_failures, pending_buy, chan, chanOpen, cfg, sl>>
  /\ UNCHANGED <<slotVars, cl, sendVars, bufVars, runnerVars, lockVars, backoffVars, wssVars>>

\* Err(_): the receive timed out (in passive mode followed by a short sleep)
RunRecvTimeout ==
  /\ by["run"].pc \in {"recv", "recv_passive"}
  /\ chan = <<>>
  /\ chanOpen
  /\ by' = [by EXCEPT !["run"].pc = "loop"]
  /\ UNCHANGED <<app_state, consecutive_failures, pending_buy, chan, chanOpen, cfg, sl>>
  /\ UNCHANGED <<slotVars, cl, sendVars, bufVars, runnerVars, lockVars, backoffVars, wssVars>>

\* passive mode: the candidate is ignored
RunRecvPassive ==
  /\ by["run"].pc = "recv_passive"
  /\ chan # <<>>
  /\ chan' = Tail(chan)
  /\ by' = [by EXCEPT !["run"].pc = "loop"]
  /\ UNCHANGED <<app_state, consecutive_failures, pending_buy, chanOpen, cfg, sl>>
  /\ UNCHANGED <<slotVars, cl, sendVars, bufVars, runnerVars, lockVars, backoffVars, wssVars>>

(***************************************************************************)
(* BuyEngine::try_buy, run by the main loop ("run") and by                 *)
(* try_buy_with_guards ("guard").                                          *)
(***************************************************************************)
\* the buyer's record when acquire_nonce fails: the loop breaks; with no
\* transaction prepared try_buy returns the error, otherwise it broadcasts
AcquireFailed(r) ==
  IF r.txs = 0 THEN [r EXCEPT !.pc = "return", !.res = "err"]
               ELSE [r EXCEPT !.pc = "broadcast"]

\* self.nonce_manager.acquire_nonce().await, up to the semaphore
TryBuyAcquireSem(b) ==
  /\ by[b].pc = "acquire_sem"
  /\ sem_acquire
  /\ by' = [by EXCEPT ![b].pc = "acquire_lock"]
  /\ UNCHANGED <<free, allocated, freeLocked, dropTasks, legacyTasks>>
  /\ UNCHANGED <<app_state, consecutive_failures, pending_buy, chan, chanOpen, cfg, sl, cl, sendVars, bufVars, runnerVars, lockVars, backoffVars, wssVars>>

TryBuyAcquireLock(b) ==
  /\ by[b].pc = "acquire_lock"
  /\ free_lock
  /\ by' = [by EXCEPT ![b].pc = "acquire_body"]
  /\ UNCHANGED <<sem, free, allocated, dropTasks, legacyTasks>>
  /\ UNCHANGED <<app_state, consecutive_failures, pending_buy, chan, chanOpen, cfg, sl, cl, sendVars, bufVars, runnerVars, lockVars, backoffVars, wssVars>>

\* Ok((_, idx)) => acquired_indices.push(idx); Err(e) => break
TryBuyAcquireBody(b) ==
  /\ by[b].pc = "acquire_body"
  /\ acquire_critical_section
  /\ by' = [by EXCEPT ![b] =
              IF acquire_ok
                THEN [@ EXCEPT !.pc = "build", !.acquired = Append(@, acquire_idx)]
                ELSE AcquireFailed(@)]
  /\ UNCHANGED <<dropTasks, legacyTasks>>
  /\ UNCHANGED <<app_state, consecutive_failures, pending_buy, chan, chanOpen, cfg, sl, cl, sendVars, bufVars, runnerVars, lockVars, backoffVars, wssVars>>

\* the buyer's record once create_buy_transaction returned Ok: txs.push(tx)
\* and the next round of the loop
TxPushed(r) ==
  [r EXCEPT !.txs = @ + 1, !.i = @ + 1,
            !.pc = IF r.i + 1 < cfg.nonce_count THEN "acquire_sem" ELSE "broadcast"]

\* the buyer's record once create_buy_transaction returned Err: the `?`
\* leaves try_buy at once
BuildFailed(r) == [r EXCEPT !.pc = "return", !.res = "err"]

\* create_buy_transaction without a transaction builder: the placeholder
\* in mock mode, an error otherwise
TryBuyBuildPlaceholder(b) ==
  /\ by[b].pc = "build"
  /\ ~cfg.tx_builder
  /\ by' = [by EXCEPT ![b] = IF cfg.mock_mode THEN TxPushed(@) ELSE BuildFailed(@)]
  /\ UNCHANGED <<app_state, consecutive_failures, pending_buy, chan, chanOpen, cfg, sl>>
  /\ UNCHANGED <<slotVars, cl, sendVars, bufVars, runnerVars, lockVars, backoffVars, wssVars>>

\* build_buy_transaction: the builder first takes a slot of its own
TryBuyBuilderSem(b) ==
  /\ by[b].pc = "build"
  /\ cfg.tx_builder
  /\ sem_acquire
  /\ by' = [by EXCEPT ![b].pc = "builder_lock"]
  /\ UNCHANGED <<free, allocated, freeLocked, dropTasks, legacyTasks>>
  /\ UNCHANGED <<app_state, consecutive_failures, pending_buy, chan, chanOpen, cfg, sl, cl, sendVars, bufVars, runnerVars, lockVars, backoffVars, wssVars>>

TryBuyBuilderLock(b) ==
  /\ by[b].pc = "builder_lock"
  /\ free_lock
  /\ by' = [by EXCEPT ![b].pc = "builder_body"]
  /\ UNCHANGED <<sem, free, allocated, dropTasks, legacyTasks>>
  /\ UNCHANGED <<app_state, consecutive_failures, pending_buy, chan, chanOpen, cfg, sl, cl, sendVars, bufVars, runnerVars, lockVars, backoffVars, wssVars>>

\* let _nonce_guard = ...acquire_nonce().await.map_err(..)?
TryBuyBuilderBody(b) ==
  /\ by[b].pc = "builder_body"
  /\ acquire_critical_section
  /\ by' = [by EXCEPT ![b] =
              IF acquire_ok
                THEN [@ EXCEPT !.pc = "builder_finish", !.guards = Append(@, acquire_idx)]
                ELSE BuildFailed(@)]
  /\ UNCHANGED <<dropTasks, legacyTasks>>
  /\ UNCHANGED <<app_state, consecutive_failures, pending_buy, chan, chanOpen, cfg, sl, cl, sendVars, bufVars, runnerVars, lockVars, backoffVars, wssVars>>

\* the rest of build_buy_transaction (blockhash, instructions, signing)
\* succeeds or fails; _nonce_guard, a plain tuple, is dropped either way
TryBuyBuilderFinish(b) ==
  /\ by[b].pc = "builder_finish"
  /\ \E ok \in BOOLEAN :
       by' = [by EXCEPT ![b] = IF ok THEN TxPushed(@) ELSE BuildFailed(@)]
  /\ UNCHANGED <<app_state, consecutive_failures, pending_buy, chan, chanOpen, cfg, sl>>
  /\ UNCHANGED <<slotVars, cl, sendVars, bufVars, runnerVars, lockVars, backoffVars, wssVars>>

\* self.rpc.send_on_many_rpc(txs, ..).await
TryBuyBroadcast(b) ==
  /\ by[b].pc = "broadcast"
  /\ \E ok \in BOOLEAN :
       by' = [by EXCEPT ![b].pc = "release", ![b].res = IF ok THEN "ok" ELSE "err"]
  /\ UNCHANGED <<app_state, consecutive_failures, pending_buy, chan, chanOpen, cfg, sl>>
  /\ UNCHANGED <<slotVars, cl, sendVars, bufVars, runnerVars, lockVars, backoffVars, wssVars>>

\* for idx in acquired_indices { self.nonce_manager.release_nonce(idx); }
TryBuyRelease(b) ==
  /\ by[b].pc = "release"
  /\ by[b].acquired # <<>>
  /\ release_nonce_enabled(Head(by[b].acquired))
  /\ release_nonce(Head(by[b].acquired))
  /\ by' = [by EXCEPT ![b].acquired = Tail(@)]
  /\ UNCHANGED <<app_state, consecutive_failures, pending_buy, chan, chanOpen, cfg, sl, cl, sendVars, bufVars, runnerVars, lockVars, backoffVars, wssVars>>

\* res is handed to the caller
TryBuyReleaseDone(b) ==
  /\ by[b].pc = "release"
  /\ by[b].acquired = <<>>
  /\ by' = [by EXCEPT ![b].pc = "return"]
  /\ UNCHANGED <<app_state, consecutive_failures, pending_buy, chan, chanOpen, cfg, sl>>
  /\ UNCHANGED <<slotVars, cl, sendVars, bufVars, runnerVars, lockVars, backoffVars, wssVars>>

(***************************************************************************)
(* BackoffState, called on the engine before run takes it, as the tests do. *)
(***************************************************************************)
\* largest distance of a sampled failure count from 0, 2^31 and 2^32
MaxFailures == 9

\* the failure counts looked at: the small ones, those around 2^31 and those
\* just below 2^32
FailureCounts ==
  (0..MaxFailures) \cup {I32Max - d : d \in 0..MaxFailures}
    \cup {I32Min + d : d \in 0..MaxFailures} \cup {0 - d : d \in 1..MaxFailures}

\* backoff_state.record_failure().await
BackoffRecordFailure ==
  /\ by["run"].pc = "stopped"
  /\ wrapping_inc(consecutive_failures) \in FailureCounts
  /\ record_failure
  /\ UNCHANGED <<app_state, pending_buy, chan, chanOpen, cfg, by, sl>>
  /\ UNCHANGED <<slotVars, cl, sendVars, bufVars, runnerVars, lockVars, backoffVars, wssVars>>

\* backoff_state.record_success().await
BackoffRecordSuccess ==
  /\ by["run"].pc = "stopped"
  /\ record_success
  /\ UNCHANGED <<app_state, pending_buy, chan, chanOpen, cfg, by, sl>>
  /\ UNCHANGED <<slotVars, cl, sendVars, bufVars, runnerVars, lockVars, backoffVars, wssVars>>

\* backoff_state.should_backoff().await
BackoffShouldBackoff ==
  /\ by["run"].pc = "stopped"
  /\ backoff_ret' = [called |-> TRUE, failures |-> consecutive_failures,
                     delay |-> should_backoff_of(consecutive_failures)]
  /\ UNCHANGED engineVars
  /\ UNCHANGED <<slotVars, cl, sendVars, bufVars, runnerVars, lockVars, wssVars>>

(***************************************************************************)
(* The outcome of try_buy in the main loop.                                *)
(***************************************************************************)
BoughtState_no_price(c) ==
  [mode |-> PassiveToken(c.mint), active_token |-> c,
   last_buy_price |-> NoPrice, holdings_percent |-> Unit]

\* the position after a successful buy of candidate c
BoughtState(c) ==
  [mode |-> PassiveToken(c.mint), active_token |-> c,
   last_buy_price |-> get_execution_price_mock, holdings_percent |-> Unit]

\* Ok(sig): record_success, then the new position under the lock
RunBuyOk ==
  /\ by["run"].pc = "return"
  /\ app_lock = RunTask
  /\ app_lock' = NoTask
  /\ by["run"].res = "ok"
  /\ record_success
  /\ app_state' = BoughtState(by["run"].cand)
  /\ by' = [by EXCEPT !["run"] = RunAtLoop]
  /\ UNCHANGED <<pending_buy, chan, chanOpen, cfg, sl>>
  /\ UNCHANGED <<slotVars, cl, sendVars, bufVars, runnerVars, backoffVars, wssVars>>

\* Err(e): metrics and a log line; the engine stays in Sniffing
RunBuyErr ==
  /\ by["run"].pc = "return"
  /\ by["run"].res = "err"
  /\ by' = [by EXCEPT !["run"] = RunAtLoop]
  /\ UNCHANGED <<app_state, consecutive_failures, pending_buy, chan, chanOpen, cfg, sl>>
  /\ UNCHANGED <<slotVars, cl, sendVars, bufVars, runnerVars, lockVars, backoffVars, wssVars>>

(***************************************************************************)
(* BuyEngine::try_buy_with_guards                                          *)
(***************************************************************************)
\* compare_exchange(false, true) on pending_buy, then try_buy
GuardCall(c) ==
  /\ by["guard"].pc = "idle"
  /\ by["run"].pc = "stopped"
  /\ IF pending_buy
       THEN /\ by' = [by EXCEPT !["guard"] = [BuyerIdle EXCEPT !.res = "err"]]
            /\ UNCHANGED pending_buy
       ELSE /\ by' = [by EXCEPT !["guard"] = [BuyerIdle EXCEPT !.pc = "acquire_sem", !.cand = c]]
            /\ pending_buy' = TRUE
  /\ UNCHANGED <<app_state, consecutive_failures, chan, chanOpen, cfg, sl>>
  /\ UNCHANGED <<slotVars, cl, sendVars, bufVars, runnerVars, lockVars, backoffVars, wssVars>>

\* try_buy returned: the scope guard clears pending_buy
GuardReturn ==
  /\ by["guard"].pc = "return"
  /\ pending_buy' = FALSE
  /\ by' = [by EXCEPT !["guard"] = [BuyerIdle EXCEPT !.res = by["guard"].res]]
  /\ UNCHANGED <<app_state, consecutive_failures, chan, chanOpen, cfg, sl>>
  /\ UNCHANGED <<slotVars, cl, sendVars, bufVars, runnerVars, lockVars, backoffVars, wssVars>>

(***************************************************************************)
(* BuyEngine::sell                                                         *)
(***************************************************************************)
\* f64::clamp(0.0, 1.0): NaN stays NaN
clamp(p) == IF p = NaN THEN NaN ELSE IF p < 0 THEN 0 ELSE IF p > Unit THEN Unit ELSE p

\* validator().validate_holdings_percent(x).is_ok()
validate_holdings_percent(x) == x # NaN /\ x >= 0 /\ x <= Unit

\* (current_pct * (1.0 - pct)).max(0.0)
NewHoldings(current_pct, pct) ==
  LET x == (current_pct * (Unit - pct)) \div Unit IN IF x < 0 THEN 0 ELSE x

\* the product is a multiple of the fixed-point step
Representable(current_pct, pct) == (current_pct * (Unit - pct)) % Unit = 0

\* the seller's record when sell returns result r: the locals are gone
SellReturned(rec, r) == [SellerIdle EXCEPT !.result = r, !.sent = rec.sent]

SellCall_no_flag(s, p, via) ==
  /\ sl[s].pc = "idle"
  /\ via = "engine" => by["run"].pc = "stopped"
  /\ LET pct == clamp(p)
         rec == [SellerIdle EXCEPT !.via = via]
     IN sl' = [sl EXCEPT ![s] =
                 IF ~validate_holdings_percent(pct)
                   THEN SellReturned(rec, "invalid_percentage")
                   ELSE [rec EXCEPT !.pc = "snapshot", !.pct = pct]]
  /\ UNCHANGED <<app_state, consecutive_failures, pending_buy, chan, chanOpen, cfg, by>>
  /\ UNCHANGED <<slotVars, cl, sendVars, bufVars, runnerVars, lockVars, backoffVars, wssVars>>

\* entry of sell: the percentage is clamped and validated, then the
\* pending-buy flag is read. The call is made on the engine itself (via
\* "engine", while run is not executing) or, as SellHandle::sell of main.rs
\* does, on a fresh engine sharing the position state (via "handle"), whose
\* flag is false and whose tx_builder is None
SellCall(s, p, via) ==
  /\ sl[s].pc = "idle"
  /\ via = "engine" => by["run"].pc = "stopped"
  /\ LET pct == clamp(p)
         flag == IF via = "engine" THEN pending_buy ELSE FALSE
         rec == [SellerIdle EXCEPT !.via = via]
     IN sl' = [sl EXCEPT ![s] =
                 IF ~validate_holdings_percent(pct)
                   THEN SellReturned(rec, "invalid_percentage")
                 ELSE IF flag
                   THEN SellReturned(rec, "buy_in_progress")
                   ELSE [rec EXCEPT !.pc = "snapshot", !.pct = pct]]
  /\ UNCHANGED <<app_state, consecutive_failures, pending_buy, chan, chanOpen, cfg, by>>
  /\ UNCHANGED <<slotVars, cl, sendVars, bufVars, runnerVars, lockVars, backoffVars, wssVars>>

SellSnapshot_only_sniffing(s) ==
  /\ sl[s].pc = "snapshot"
  /\ app_lock = SellTask(s)
  /\ app_lock' = NoTask
  /\ Representable(app_state.holdings_percent, sl[s].pct)
  /\ LET new == NewHoldings(app_state.holdings_percent, sl[s].pct)
     IN sl' = [sl EXCEPT ![s] =
                 IF app_state.mode.tag = "Sniffing"
                   THEN SellReturned(@, "not_passive")
                 ELSE IF app_state.active_token = NoCandidate
                   THEN SellReturned(@, "no_active_token")
                 ELSE IF ~validate_holdings_percent(new)
                   THEN SellReturned(@, "holdings_error")
                   ELSE [@ EXCEPT !.pc = "build", !.mint = app_state.mode.mint,
                                  !.new_holdings = new]]
  /\ UNCHANGED <<app_state, consecutive_failures, pending_buy, chan, chanOpen, cfg, by>>
  /\ UNCHANGED <<slotVars, cl, sendVars, bufVars, runnerVars, backoffVars, wssVars>>

\* the snapshot of (mode, active_token, holdings_percent) under the lock and
\* the checks made on it
SellSnapshot(s) ==
  /\ sl[s].pc = "snapshot"
  /\ app_lock = SellTask(s)
  /\ app_lock' = NoTask
  /\ Representable(app_state.holdings_percent, sl[s].pct)
  /\ LET new == NewHoldings(app_state.holdings_percent, sl[s].pct)
     IN sl' = [sl EXCEPT ![s] =
                 IF app_state.mode.tag # "PassiveToken"
                   THEN SellReturned(@, "not_passive")
                 ELSE IF app_state.active_token = NoCandidate
                   THEN SellReturned(@, "no_active_token")
                 ELSE IF ~validate_holdings_percent(new)
                   THEN SellReturned(@, "holdings_error")
                   ELSE [@ EXCEPT !.pc = "build", !.mint = app_state.mode.mint,
                                  !.new_holdings = new]]
  /\ UNCHANGED <<app_state, consecutive_failures, pending_buy, chan, chanOpen, cfg, by>>
  /\ UNCHANGED <<slotVars, cl, sendVars, bufVars, runnerVars, backoffVars, wssVars>>

\* the engine the call runs on has a transaction builder
SellHasBuilder(s) == sl[s].via = "engine" /\ cfg.tx_builder

\* create_sell_transaction without a builder
SellBuildPlaceholder(s) ==
  /\ sl[s].pc = "build"
  /\ ~SellHasBuilder(s)
  /\ sl' = [sl EXCEPT ![s] =
              IF cfg.mock_mode THEN [@ EXCEPT !.pc = "broadcast"]
                               ELSE SellReturned(@, "build_failed")]
  /\ UNCHANGED <<app_state, consecutive_failures, pending_buy, chan, chanOpen, cfg, by>>
  /\ UNCHANGED <<slotVars, cl, sendVars, bufVars, runnerVars, lockVars, backoffVars, wssVars>>

\* build_sell_transaction: the builder takes a slot of its own
SellBuilderSem(s) ==
  /\ sl[s].pc = "build"
  /\ SellHasBuilder(s)
  /\ sem_acquire
  /\ sl' = [sl EXCEPT ![s].pc = "builder_lock"]
  /\ UNCHANGED <<free, allocated, freeLocked, dropTasks, legacyTasks>>
  /\ UNCHANGED <<app_state, consecutive_failures, pending_buy, chan, chanOpen, cfg, by, cl, sendVars, bufVars, runnerVars, lockVars, backoffVars, wssVars>>

SellBuilderLock(s) ==
  /\ sl[s].pc = "builder_lock"
  /\ free_lock
  /\ sl' = [sl EXCEPT ![s].pc = "builder_body"]
  /\ UNCHANGED <<sem, free, allocated, dropTasks, legacyTasks>>
  /\ UNCHANGED <<app_state, consecutive_failures, pending_buy, chan, chanOpen, cfg, by, cl, sendVars, bufVars, runnerVars, lockVars, backoffVars, wssVars>>

SellBuilderBody(s) ==
  /\ sl[s].pc = "builder_body"
  /\ acquire_critical_section
  /\ sl' = [sl EXCEPT ![s] =
              IF acquire_ok
                THEN [@ EXCEPT !.pc = "builder_finish"]
                ELSE SellReturned(@, "build_failed")]
  /\ UNCHANGED <<dropTasks, legacyTasks>>
  /\ UNCHANGED <<app_state, consecutive_failures, pending_buy, chan, chanOpen, cfg, by, cl, sendVars, bufVars, runnerVars, lockVars, backoffVars, wssVars>>

SellBuilderFinish(s) ==
  /\ sl[s].pc = "builder_finish"
  /\ \E ok \in BOOLEAN :
       sl' = [sl EXCEPT ![s] =
                IF ok THEN [@ EXCEPT !.pc = "broadcast"]
                      ELSE SellReturned(@, "build_failed")]
  /\ UNCHANGED <<app_state, consecutive_failures, pending_buy, chan, chanOpen, cfg, by>>
  /\ UNCHANGED <<slotVars, cl, sendVars, bufVars, runnerVars, lockVars, backoffVars, wssVars>>

SellBroadcast_early_commit(s) ==
  /\ sl[s].pc = "broadcast"
  /\ \E ok \in BOOLEAN :
       sl' = [sl EXCEPT ![s] =
                IF ok THEN [@ EXCEPT !.pc = "commit", !.sent = TRUE]
                      ELSE SellReturned([@ EXCEPT !.sent = TRUE], "broadcast_failed")]
  /\ app_state' = [app_state EXCEPT !.holdings_percent = sl[s].new_holdings]
  /\ UNCHANGED <<consecutive_failures, pending_buy, chan, chanOpen, cfg, by>>
  /\ UNCHANGED <<slotVars, cl, sendVars, bufVars, runnerVars, lockVars, backoffVars, wssVars>>

\* self.rpc.send_on_many_rpc(vec![sell_tx], None).await
SellBroadcast(s) ==
  /\ sl[s].pc = "broadcast"
  /\ \E ok \in BOOLEAN :
       sl' = [sl EXCEPT ![s] =
                IF ok THEN [@ EXCEPT !.pc = "commit", !.sent = TRUE]
                      ELSE SellReturned([@ EXCEPT !.sent = TRUE], "broadcast_failed")]
  /\ UNCHANGED <<app_state, consecutive_failures, pending_buy, chan, chanOpen, cfg, by>>
  /\ UNCHANGED <<slotVars, cl, sendVars, bufVars, runnerVars, lockVars, backoffVars, wssVars>>

SoldState_keeps_price(st, new_holdings) ==
  IF new_holdings <= EPSILON
    THEN [mode |-> Sniffing, active_token |-> NoCandidate,
          last_buy_price |-> st.last_buy_price, holdings_percent |-> new_holdings]
    ELSE [st EXCEPT !.holdings_percent = new_holdings]

\* the position after the Ok(sig) arm has written new_holdings
SoldState(st, new_holdings) ==
  IF new_holdings <= EPSILON
    THEN [mode |-> Sniffing, active_token |-> NoCandidate,
          last_buy_price |-> NoPrice, holdings_percent |-> new_holdings]
    ELSE [st EXCEPT !.holdings_percent = new_holdings]

\* Ok(sig): the new holdings are written under the lock
SellCommit(s) ==
  /\ sl[s].pc = "commit"
  /\ app_lock = SellTask(s)
  /\ app_lock' = NoTask
  /\ app_state' = SoldState(app_state, sl[s].new_holdings)
  /\ sl' = [sl EXCEPT ![s] = SellReturned(@, "ok")]
  /\ UNCHANGED <<consecutive_failures, pending_buy, chan, chanOpen, cfg, by>>
  /\ UNCHANGED <<slotVars, cl, sendVars, bufVars, runnerVars, backoffVars, wssVars>>

(***************************************************************************)
(* RpcManager::send_on_many_rpc, the broadcaster.                          *)
(***************************************************************************)
\* most endpoints of an RpcManager
MaxEndpoints == 2
\* most transactions passed to one call
MaxTxs == 2
\* largest early_cancel_threshold
MaxThreshold == 2

\* what an endpoint does with a transaction sent to it: it accepts it, it
\* answers with an error of that message, or it never answers
EndpointAnswers == {"ok", "insufficient funds", "connection refused", "hung"}

BroadcastModes == {"Pairwise", "Replicate", "RoundRobin", "FullFanout"}

\* is_fatal_error_type(error_msg): the message contains one of four texts
is_fatal_error_type(error_msg) ==
  error_msg \in {"insufficient funds", "account not found",
                 "invalid signature", "transaction too large"}

\* anyhow!(e).context("RPC failed") and anyhow!("RPC send timeout")
rpc_failed(message) == [context |-> "RPC failed", source |-> message]
rpc_send_timeout == [context |-> "RPC send timeout", source |-> "none"]

\* e.to_string() of an anyhow error: the outermost context only
to_string(e) == e.context

NoResult == [ok |-> FALSE, sig |-> 0, err |-> [context |-> "none", source |-> "none"]]
TaskOk(tx) == [ok |-> TRUE, sig |-> tx, err |-> [context |-> "none", source |-> "none"]]
TaskErr(e) == [ok |-> FALSE, sig |-> 0, err |-> e]

\* the values send_on_many_rpc returns
NoReturn == [ok |-> FALSE, sig |-> 0, error |-> "none", fatal_errors |-> 0]
SendOk(sig) == [ok |-> TRUE, sig |-> sig, error |-> "none", fatal_errors |-> 0]
SendNothingToSend ==
  [ok |-> FALSE, sig |-> 0, error |-> "no endpoints or no transactions", fatal_errors |-> 0]
SendAllFailed(n) == [ok |-> FALSE, sig |-> 0, error |-> "all sends failed", fatal_errors |-> n]

\* an RpcManager on which nothing is sent
RpcManager_idle ==
  /\ txs = <<>>
  /\ join_set = <<>>
  /\ completed = <<>>
  /\ fatal_errors = 0
  /\ send = [pc |-> "idle", ret |-> NoReturn]

\* RpcManager::new(endpoints, config)
RpcManager_new ==
  /\ endpoints \in UNION {[1..n -> EndpointAnswers] : n \in 0..MaxEndpoints}
  /\ rpc_cfg \in [early_cancel_threshold : 0..MaxThreshold, broadcast_mode : BroadcastModes]
  /\ RpcManager_idle

\* the engine specifications use a broadcaster of their own
RpcManager_none ==
  /\ endpoints = <<>>
  /\ rpc_cfg = [early_cancel_threshold |-> 2, broadcast_mode |-> "Pairwise"]
  /\ RpcManager_idle

\* std::cmp::min(self.endpoints.len(), txs.len())
num_tasks(n, m) == IF n < m THEN n ELSE m

spawned_task_first_tx(i) ==
  [endpoint |-> i, tx |-> 1, st |-> "running", res |-> NoResult]

\* the task spawned in iteration i: endpoints[i] and txs[i]
spawned_task(i) ==
  [endpoint |-> i, tx |-> i, st |-> "running", res |-> NoResult]

\* the call: the early return, or the spawn loop
SendCall(m) ==
  /\ send.pc = "idle"
  /\ txs' = [i \in 1..m |-> i]
  /\ IF Len(endpoints) = 0 \/ m = 0
       THEN /\ join_set' = <<>>
            /\ send' = [pc |-> "returned", ret |-> SendNothingToSend]
       ELSE /\ join_set' = [i \in 1..num_tasks(Len(endpoints), m) |-> spawned_task(i)]
            /\ send' = [pc |-> "join", ret |-> NoReturn]
  /\ completed' = <<>>
  /\ fatal_errors' = 0
  /\ UNCHANGED <<endpoints, rpc_cfg>>
  /\ UNCHANGED <<slotVars, cl, engineVars, bufVars, runnerVars, lockVars, backoffVars, wssVars>>

\* Ok(Ok(sig)) and Ok(Err(e)) of the task: the endpoint has answered
TaskRespond(i) ==
  /\ i \in DOMAIN join_set
  /\ join_set[i].st = "running"
  /\ LET answer == endpoints[join_set[i].endpoint]
     IN /\ answer # "hung"
        /\ join_set' = [join_set EXCEPT ![i].st = "finished",
                          ![i].res = IF answer = "ok" THEN TaskOk(join_set[i].tx)
                                     ELSE TaskErr(rpc_failed(answer))]
  /\ completed' = Append(completed, i)
  /\ UNCHANGED <<endpoints, rpc_cfg, txs, fatal_errors, send>>
  /\ UNCHANGED <<slotVars, cl, engineVars, bufVars, runnerVars, lockVars, backoffVars, wssVars>>

TaskTimeout_never(i) ==
  /\ FALSE
  /\ UNCHANGED vars

\* Err(_elapsed) of the task: timeout_duration is over
TaskTimeout(i) ==
  /\ i \in DOMAIN join_set
  /\ join_set[i].st = "running"
  /\ endpoints[join_set[i].endpoint] = "hung"
  /\ join_set' = [join_set EXCEPT ![i].st = "finished", ![i].res = TaskErr(rpc_send_timeout)]
  /\ completed' = Append(completed, i)
  /\ UNCHANGED <<endpoints, rpc_cfg, txs, fatal_errors, send>>
  /\ UNCHANGED <<slotVars, cl, engineVars, bufVars, runnerVars, lockVars, backoffVars, wssVars>>

abort_all_forgotten(js) == js

\* set.abort_all(): every task that has not finished is cancelled
abort_all(js) ==
  [i \in DOMAIN js |-> IF js[i].st = "running" THEN [js[i] EXCEPT !.st = "aborted"] ELSE js[i]]

\* one turn of `while let Some(join_res) = set.join_next().await`, up to the
\* next await: a success returns, an error is counted and the loop goes on,
\* breaks on the threshold or ends when the set is empty
JoinNext ==
  /\ send.pc = "join"
  /\ completed # <<>>
  /\ LET i == Head(completed)
         r == join_set[i].res
         js == [join_set EXCEPT ![i].st = "joined"]
         fatal == ~r.ok /\ is_fatal_error_type(to_string(r.err))
         count == IF fatal THEN fatal_errors + 1 ELSE fatal_errors
         cancel == fatal /\ count >= rpc_cfg.early_cancel_threshold
         empty == \A k \in DOMAIN js : js[k].st = "joined"
     IN IF r.ok
          THEN /\ join_set' = abort_all(js)
               /\ completed' = <<>>
               /\ send' = [pc |-> "returned", ret |-> SendOk(r.sig)]
               /\ UNCHANGED fatal_errors
          ELSE /\ fatal_errors' = count
               /\ join_set' = IF cancel THEN abort_all(js) ELSE js
               /\ completed' = IF cancel THEN <<>> ELSE Tail(completed)
               /\ send' = IF cancel \/ empty
                            THEN [pc |-> "returned", ret |-> SendAllFailed(count)]
                            ELSE send
  /\ UNCHANGED <<endpoints, rpc_cfg, txs>>
  /\ UNCHANGED <<slotVars, cl, engineVars, bufVars, runnerVars, lockVars, backoffVars, wssVars>>

\* the caller has taken the result; the JoinSet is dropped
SendDone ==
  /\ send.pc = "returned"
  /\ txs' = <<>>
  /\ join_set' = <<>>
  /\ completed' = <<>>
  /\ fatal_errors' = 0
  /\ send' = [pc |-> "idle", ret |-> NoReturn]
  /\ UNCHANGED <<endpoints, rpc_cfg>>
  /\ UNCHANGED <<slotVars, cl, engineVars, bufVars, runnerVars, lockVars, backoffVars, wssVars>>

(***************************************************************************)
(* The candidate buffer.                                                   *)
(***************************************************************************)
\* the mints of the candidates pushed
MaxMints == 3
\* the longest ttl, in ticks of the clock
MaxTtl == 2
\* the largest max_size passed to CandidateBuffer::new
MaxSize == 2
\* the clock stops here
MaxTime == 3
\* the pushes of one run
MaxPushes == 4

Mints == 1..MaxMints
\* PremintCandidate: the mint and, standing for the other fields, the timestamp
BufCandidates == [mint : Mints, timestamp : {1, 2}]
NoCand == [mint |-> 0, timestamp |-> 0]

NoBufRet == [op |-> "none", inserted |-> FALSE, cand |-> NoCand, removed |-> 0]
PushRet(b) == [op |-> "push", inserted |-> b, cand |-> NoCand, removed |-> 0]
PopRet(c) == [op |-> "pop_best", inserted |-> FALSE, cand |-> c, removed |-> 0]
CleanupRet(n) == [op |-> "cleanup", inserted |-> FALSE, cand |-> NoCand, removed |-> n]

NoHist == [pushed |-> {}, inserted |-> 0, pops_since_push |-> 0, only_pushes |-> TRUE,
           first_push_at |-> 0]

\* `if max_size == 0 { 1 } else { max_size }`
normalized_max_size(n) == IF n = 0 THEN 1 ELSE n

\* CandidateBuffer::new(ttl, max_size)
CandidateBuffer_new ==
  /\ map = <<>>
  /\ insertion_order = <<>>
  /\ ttl \in 0..MaxTtl
  /\ \E n \in 0..MaxSize : max_size = normalized_max_size(n)
  /\ sequence = 0
  /\ now = 0
  /\ buf_ret = NoBufRet
  /\ buf_hist = NoHist

\* no buffer is in use
CandidateBuffer_none ==
  /\ map = <<>>
  /\ insertion_order = <<>>
  /\ ttl = 0
  /\ max_size = 1
  /\ sequence = 0
  /\ now = 0
  /\ buf_ret = NoBufRet
  /\ buf_hist = NoHist

contains_key_never(m, mint) == FALSE

\* self.map.contains_key(&mint)
contains_key(m, mint) == mint \in DOMAIN m

\* self.map.remove(&key)
map_remove(m, keys) == [k \in DOMAIN m \ keys |-> m[k]]

is_expired_later(seen_at) == now - seen_at > ttl

\* now.duration_since(*seen_at) >= self.ttl
is_expired(seen_at) == now - seen_at >= ttl

\* the keys cleanup takes out: all of them when ttl is zero, the expired otherwise
expired_keys(m) ==
  IF ttl = 0 THEN DOMAIN m ELSE {k \in DOMAIN m : is_expired(m[k].seen_at)}

\* self.insertion_order.retain(|(key, _seq)| !expired_keys.contains(key))
retain_keeps_all(order, keys) == order

retain(order, keys) == SelectSeq(order, LAMBDA e : e.key \notin keys)

\* cleanup(): the map, the order and the number removed
cleaned_map(m) == map_remove(m, expired_keys(m))
cleaned_order(m, order) == retain(order, expired_keys(m))
cleaned_count(m) == Cardinality(DOMAIN m) - Cardinality(DOMAIN cleaned_map(m))

\* `self.map.len() >= self.max_size && self.max_size > 0`
at_capacity(m) == Cardinality(DOMAIN m) >= max_size /\ max_size > 0

\* the eviction of push: the front of the order leaves the map and the order
evict_takes_none(m, order) == [m |-> m, order |-> order]

evict(m, order) ==
  IF at_capacity(m) /\ order # <<>>
    THEN [m |-> map_remove(m, {Head(order).key}), order |-> Tail(order)]
    ELSE [m |-> m, order |-> order]

pop_scan_newest(m, order) ==
  IF order = <<>>
    THEN [m |-> m, order |-> order, cand |-> NoCand]
    ELSE LET e == order[Len(order)]
         IN [m |-> map_remove(m, {e.key}), order |-> SubSeq(order, 1, Len(order) - 1),
             cand |-> m[e.key].cand]

\* the loop of pop_best: entries leave the front of the order until one is
\* in the map with the sequence number the order has for it
RECURSIVE pop_scan(_, _)
pop_scan(m, order) ==
  IF order = <<>>
    THEN [m |-> m, order |-> order, cand |-> NoCand]
    ELSE LET e == Head(order)
         IN IF contains_key(m, e.key)
              THEN IF m[e.key].seq = e.seq
                     THEN [m |-> map_remove(m, {e.key}), order |-> Tail(order),
                           cand |-> m[e.key].cand]
                     ELSE pop_scan(map_remove(m, {e.key}), Tail(order))
              ELSE pop_scan(m, Tail(order))

\* push(c)
BufPush(c) ==
  /\ buf_hist.inserted < MaxPushes
  /\ LET m == cleaned_map(map)
         order == cleaned_order(map, insertion_order)
         ev == evict(m, order)
         seq == sequence + 1
     IN IF contains_key(m, c.mint)
          THEN /\ map' = m
               /\ insertion_order' = order
               /\ sequence' = sequence
               /\ buf_ret' = PushRet(FALSE)
               /\ buf_hist' = [buf_hist EXCEPT !.pushed = @ \cup {c.mint},
                                               !.pops_since_push = 0]
          ELSE /\ map' = [k \in DOMAIN ev.m \cup {c.mint} |->
                            IF k = c.mint THEN [cand |-> c, seen_at |-> now, seq |-> seq]
                            ELSE ev.m[k]]
               /\ insertion_order' = Append(ev.order, [key |-> c.mint, seq |-> seq])
               /\ sequence' = seq
               /\ buf_ret' = PushRet(TRUE)
               /\ buf_hist' = [buf_hist EXCEPT
                                 !.pushed = @ \cup {c.mint},
                                 !.inserted = @ + 1,
                                 !.pops_since_push = 0,
                                 !.first_push_at = IF buf_hist.pushed = {} THEN now ELSE @]
  /\ UNCHANGED <<ttl, max_size, now>>
  /\ UNCHANGED <<slotVars, cl, engineVars, sendVars, runnerVars, lockVars, backoffVars, wssVars>>

\* pop_best()
BufPopBest ==
  /\ LET r == pop_scan(cleaned_map(map), cleaned_order(map, insertion_order))
     IN /\ map' = r.m
        /\ insertion_order' = r.order
        /\ buf_ret' = PopRet(r.cand)
  /\ buf_hist' = [buf_hist EXCEPT
                    !.only_pushes = FALSE,
                    !.pops_since_push = IF @ < MaxPushes THEN @ + 1 ELSE @]
  /\ UNCHANGED <<ttl, max_size, sequence, now>>
  /\ UNCHANGED <<slotVars, cl, engineVars, sendVars, runnerVars, lockVars, backoffVars, wssVars>>

\* cleanup()
BufCleanup ==
  /\ map' = cleaned_map(map)
  /\ insertion_order' = cleaned_order(map, insertion_order)
  /\ buf_ret' = CleanupRet(cleaned_count(map))
  /\ buf_hist' = [buf_hist EXCEPT !.only_pushes = FALSE]
  /\ UNCHANGED <<ttl, max_size, sequence, now>>
  /\ UNCHANGED <<slotVars, cl, engineVars, sendVars, runnerVars, lockVars, backoffVars, wssVars>>

\* time passes between two calls
BufTick ==
  /\ now < MaxTime
  /\ now' = now + 1
  /\ UNCHANGED <<map, insertion_order, ttl, max_size, sequence, buf_ret, buf_hist>>
  /\ UNCHANGED <<slotVars, cl, engineVars, sendVars, runnerVars, lockVars, backoffVars, wssVars>>

(***************************************************************************)
(* The sniffer runner: the watchdog loop and the tasks of the HTTP         *)
(* fallback it spawns.                                                     *)
(***************************************************************************)
\* the tasks running HttpSource::run at one time
MaxInstances == 3

\* SnifferRunner::new(cfg) and the sources built at the top of run; the WSS
\* source starts with a fresh heartbeat, the HTTP source with healthy = false
SnifferRunner_new ==
  /\ runner_cfg \in [wss_required : BOOLEAN, http_fallback_enabled : BOOLEAN,
                     rpc_endpoints : {0, 1}]
  /\ wss_healthy = TRUE
  /\ http_healthy = FALSE
  /\ http_tasks = [waiting |-> 0, polling |-> 0]
  /\ tick = "none"

\* no runner is in use
SnifferRunner_none ==
  /\ runner_cfg = [wss_required |-> FALSE, http_fallback_enabled |-> FALSE,
                   rpc_endpoints |-> 0]
  /\ wss_healthy = TRUE
  /\ http_healthy = FALSE
  /\ http_tasks = [waiting |-> 0, polling |-> 0]
  /\ tick = "none"

\* no live source is in use
WssSource_none ==
  /\ wss_cfg = [wss_reconnect_backoff_ms |-> 1, wss_reconnect_backoff_max_ms |-> 1]
  /\ wss_pc = "none"
  /\ wss_backoff = 0
  /\ wss_slept = <<>>

\* the tasks that have entered HttpSource::run and not returned
Running == http_tasks.waiting + http_tasks.polling

watchdog_falls_back_always(wss_ok, http_ok) ==
  IF wss_ok THEN IF http_ok THEN "stop" ELSE "live"
  ELSE IF runner_cfg.http_fallback_enabled /\ ~http_ok THEN "start"
  ELSE "nothing"

\* the body of the watchdog loop after the sleep: what it decides from
\* wss.is_healthy() and http.is_healthy()
watchdog(wss_ok, http_ok) ==
  IF wss_ok THEN IF http_ok THEN "stop" ELSE "live"
  ELSE IF runner_cfg.wss_required THEN "wait"
  ELSE IF runner_cfg.http_fallback_enabled /\ ~http_ok THEN "start"
  ELSE "nothing"

\* http.request_stop(): notify_waiters wakes the tasks that wait in select!;
\* a task that is in its poll has no waiter registered for the next turn
request_stop(tasks) == [tasks EXCEPT !.waiting = 0]

\* tokio::spawn(http_cloned.run(..)): the task goes to its loop and waits
spawn_http(tasks) == [tasks EXCEPT !.waiting = @ + 1]

\* one turn of the watchdog loop
RunnerTick ==
  /\ LET did == watchdog(wss_healthy, http_healthy)
     IN /\ did = "start" => Running < MaxInstances
        /\ tick' = did
        /\ http_tasks' = IF did = "stop" THEN request_stop(http_tasks)
                         ELSE IF did = "start" THEN spawn_http(http_tasks)
                         ELSE http_tasks
  /\ UNCHANGED <<runner_cfg, wss_healthy, http_healthy>>
  /\ UNCHANGED <<slotVars, cl, engineVars, sendVars, bufVars, lockVars, backoffVars, wssVars>>

\* the sleep of http_poll_interval_ms is over: the task calls the endpoint;
\* with no endpoint configured the task only ever waits for the stop
HttpSleepDone ==
  /\ http_tasks.waiting > 0
  /\ runner_cfg.rpc_endpoints > 0
  /\ http_tasks' = [waiting |-> http_tasks.waiting - 1, polling |-> http_tasks.polling + 1]
  /\ UNCHANGED <<runner_cfg, wss_healthy, http_healthy, tick>>
  /\ UNCHANGED <<slotVars, cl, engineVars, sendVars, bufVars, lockVars, backoffVars, wssVars>>

\* getSignaturesForAddress has answered: mark_healthy(ok), the candidates
\* found are sent, and the task is back at the top of its loop
HttpPolled(ok) ==
  /\ http_tasks.polling > 0
  /\ http_healthy' = ok
  /\ http_tasks' = [waiting |-> http_tasks.waiting + 1, polling |-> http_tasks.polling - 1]
  /\ UNCHANGED <<runner_cfg, wss_healthy, tick>>
  /\ UNCHANGED <<slotVars, cl, engineVars, sendVars, bufVars, lockVars, backoffVars, wssVars>>

\* the live feed falls silent for longer than wss_max_silent_ms, or a
\* heartbeat arrives again
WssChange ==
  /\ wss_healthy' = ~wss_healthy
  /\ UNCHANGED <<runner_cfg, http_healthy, http_tasks, tick>>
  /\ UNCHANGED <<slotVars, cl, engineVars, sendVars, bufVars, lockVars, backoffVars, wssVars>>

(***************************************************************************)
(* The engine with its slot manager.                                       *)
(***************************************************************************)
Init ==
  /\ IndexSlotManager_new
  /\ ClientInit
  /\ BuyEngine_new
  /\ RpcManager_none
  /\ CandidateBuffer_none
  /\ SnifferRunner_none
  /\ WssSource_none

\* the engine as the tests build it: no transaction builder, mock mode,
\* nonce_count 1
TestInit ==
  /\ Init
  /\ cfg = [nonce_count |-> 1, tx_builder |-> FALSE, mock_mode |-> TRUE]

SnifferNext(inputs) ==
  \/ \E c \in inputs : SnifferSend(c)
  \/ SnifferClose

RunNext ==
  \/ RunStart
  \/ AppStateLock(RunTask)
  \/ RunLoopTop
  \/ \E v \in ValidatorAnswers : RunRecvCandidate(v)
  \/ RunRecvClosed
  \/ RunRecvTimeout
  \/ RunRecvPassive
  \/ RunBuyOk
  \/ RunBuyErr

TryBuyNext(b) ==
  \/ TryBuyAcquireSem(b)
  \/ TryBuyAcquireLock(b)
  \/ TryBuyAcquireBody(b)
  \/ TryBuyBuildPlaceholder(b)
  \/ TryBuyBroadcast(b)
  \/ TryBuyRelease(b)
  \/ TryBuyReleaseDone(b)

TryBuyBuilderNext(b) ==
  \/ TryBuyBuilderSem(b)
  \/ TryBuyBuilderLock(b)
  \/ TryBuyBuilderBody(b)
  \/ TryBuyBuilderFinish(b)

SellNext(s, vias) ==
  \/ \E p \in PercentInputs : \E via \in vias : SellCall(s, p, via)
  \/ AppStateLock(SellTask(s))
  \/ SellSnapshot(s)
  \/ SellBuildPlaceholder(s)
  \/ SellBroadcast(s)
  \/ SellCommit(s)

SellBuilderNext(s) ==
  \/ SellBuilderSem(s)
  \/ SellBuilderLock(s)
  \/ SellBuilderBody(s)
  \/ SellBuilderFinish(s)

GuardNext(inputs) ==
  \/ \E c \in inputs : GuardCall(c)
  \/ GuardReturn

\* the main loop, the sniffer and the sell callers, under every configuration
Next ==
  \/ SnifferNext(CandidateInputs)
  \/ RunNext
  \/ TryBuyNext("run")
  \/ TryBuyBuilderNext("run")
  \/ \E s \in Sellers : SellNext(s, {"engine", "handle"})
  \/ \E s \in Sellers : SellBuilderNext(s)

Spec == Init /\ [][Next]_vars

\* every task that can take a step takes one in the end: the main loop with
\* the try_buy it awaits, and the sell callers while they hold the lock on
\* the free queue or the guard of app_state
RunSteps ==
  \/ AppStateLock(RunTask)
  \/ RunLoopTop
  \/ \E v \in ValidatorAnswers : RunRecvCandidate(v)
  \/ RunRecvClosed
  \/ RunRecvTimeout
  \/ RunRecvPassive
  \/ RunBuyOk
  \/ RunBuyErr
  \/ TryBuyNext("run")
  \/ TryBuyBuilderNext("run")

LiveFairness ==
  /\ WF_vars(RunSteps)
  /\ \A s \in Sellers : WF_vars(SellBuilderNext(s))
  /\ \A s \in Sellers : WF_vars(SellSnapshot(s) \/ SellCommit(s))

SpecLive == Init /\ [][Next]_vars /\ LiveFairness

\* concurrent sell calls beside the main loop, in the test configuration
RaceNext ==
  \/ SnifferNext(BuyableInputs)
  \/ RunNext
  \/ TryBuyNext("run")
  \/ \E s \in RaceSellers : SellNext(s, {"handle"})

SpecRace == TestInit /\ [][RaceNext]_vars

\* try_buy_with_guards called beside the main loop and a sell caller, in the
\* test configuration
GuardedNext ==
  \/ SnifferNext(OneInput)
  \/ RunNext
  \/ TryBuyNext("run")
  \/ GuardNext(OneInput)
  \/ TryBuyNext("guard")
  \/ \E s \in Sellers : SellNext(s, {"engine", "handle"})

SpecGuard == TestInit /\ [][GuardedNext]_vars

\* the engine of the tests, with a failure count left by earlier calls of
\* record_failure
BackoffInit ==
  /\ IndexSlotManager_new
  /\ ClientInit
  /\ BuyEngine_fields
  /\ consecutive_failures \in FailureCounts
  /\ cfg = [nonce_count |-> 1, tx_builder |-> FALSE, mock_mode |-> TRUE]
  /\ app_state.mode = Sniffing
  /\ RpcManager_none
  /\ CandidateBuffer_none
  /\ SnifferRunner_none
  /\ WssSource_none

BackoffNext ==
  \/ BackoffRecordFailure
  \/ BackoffRecordSuccess
  \/ BackoffShouldBackoff
  \/ SnifferNext(OneInput)
  \/ RunNext
  \/ RunBackoffSleep
  \/ TryBuyNext("run")

SpecBackoff == BackoffInit /\ [][BackoffNext]_vars

\* the main loop is scheduled again whenever it can run, and a sleep ends
BackoffFairness == WF_vars(RunSteps \/ RunBackoffSleep)

SpecBackoffLive == BackoffInit /\ [][BackoffNext]_vars /\ BackoffFairness

(***************************************************************************)
(* WssSource::run, the live source's reconnect loop (an endpoint is         *)
(* configured).                                                            *)
(***************************************************************************)
\* largest reconnect backoff configured, in units of the smallest
MaxBackoffMs == 4
\* most reconnect sleeps in a row that are followed
MaxSleeps == 3

\* Config::validate: 0 < wss_reconnect_backoff_ms <= wss_reconnect_backoff_max_ms
WssConfigs ==
  {c \in [wss_reconnect_backoff_ms : 1..MaxBackoffMs,
          wss_reconnect_backoff_max_ms : 1..MaxBackoffMs] :
     c.wss_reconnect_backoff_ms <= c.wss_reconnect_backoff_max_ms}

\* WssSource::new, before run is called
WssSource_new ==
  /\ wss_cfg \in WssConfigs
  /\ wss_pc = "new"
  /\ wss_backoff = 0
  /\ wss_slept = <<>>

next_backoff_uncapped(backoff, max_backoff) == backoff * 2

\* (backoff.saturating_mul(2)).min(max_backoff)
next_backoff(backoff, max_backoff) == Min(backoff * 2, max_backoff)

\* run is entered: let mut backoff = self.cfg.wss_reconnect_backoff_ms
WssRun ==
  /\ wss_pc = "new"
  /\ wss_pc' = "connect"
  /\ wss_backoff' = wss_cfg.wss_reconnect_backoff_ms
  /\ UNCHANGED <<wss_cfg, wss_slept>>
  /\ UNCHANGED <<slotVars, cl, engineVars, sendVars, bufVars, runnerVars, lockVars, backoffVars>>

\* PubsubClient::new(..).await: Ok goes on to subscribe, Err to the sleep at
\* the end of the loop
WssConnect(ok) ==
  /\ wss_pc = "connect"
  /\ ok \/ Len(wss_slept) < MaxSleeps
  /\ wss_pc' = IF ok THEN "subscribe" ELSE "sleep"
  /\ UNCHANGED <<wss_cfg, wss_backoff, wss_slept>>
  /\ UNCHANGED <<slotVars, cl, engineVars, sendVars, bufVars, runnerVars, lockVars, backoffVars>>

\* logs_subscribe(..).await: Ok resets the backoff and starts the stream, Err
\* sleeps, doubles and continues
WssSubscribe(ok) ==
  /\ wss_pc = "subscribe"
  /\ ok \/ Len(wss_slept) < MaxSleeps
  /\ IF ok
       THEN /\ wss_pc' = "stream"
            /\ wss_backoff' = wss_cfg.wss_reconnect_backoff_ms
            /\ wss_slept' = <<>>
       ELSE /\ wss_pc' = "sleep"
            /\ UNCHANGED <<wss_backoff, wss_slept>>
  /\ UNCHANGED wss_cfg
  /\ UNCHANGED <<slotVars, cl, engineVars, sendVars, bufVars, runnerVars, lockVars, backoffVars>>

\* the stream ends (sub.next() is None) or the heartbeat times out: break
WssStreamLost ==
  /\ wss_pc = "stream"
  /\ wss_pc' = "sleep"
  /\ UNCHANGED <<wss_cfg, wss_backoff, wss_slept>>
  /\ UNCHANGED <<slotVars, cl, engineVars, sendVars, bufVars, runnerVars, lockVars, backoffVars>>

\* stop_notify fires while streaming: unsubscribe and return
WssStopRequested ==
  /\ wss_pc = "stream"
  /\ wss_pc' = "returned"
  /\ UNCHANGED <<wss_cfg, wss_backoff, wss_slept>>
  /\ UNCHANGED <<slotVars, cl, engineVars, sendVars, bufVars, runnerVars, lockVars, backoffVars>>

\* time::sleep(Duration::from_millis(backoff)).await is over; the backoff is
\* doubled up to the maximum and the loop connects again
WssSleepDone ==
  /\ wss_pc = "sleep"
  /\ wss_slept' = Append(wss_slept, wss_backoff)
  /\ wss_backoff' = next_backoff(wss_backoff, wss_cfg.wss_reconnect_backoff_max_ms)
  /\ wss_pc' = "connect"
  /\ UNCHANGED wss_cfg
  /\ UNCHANGED <<slotVars, cl, engineVars, sendVars, bufVars, runnerVars, lockVars, backoffVars>>

WssInit ==
  /\ IndexSlotManager_new
  /\ ClientInit
  /\ BuyEngine_new
  /\ cfg = [nonce_count |-> 1, tx_builder |-> FALSE, mock_mode |-> TRUE]
  /\ app_state.mode = Sniffing
  /\ RpcManager_none
  /\ CandidateBuffer_none
  /\ SnifferRunner_none
  /\ WssSource_new

WssNext ==
  \/ WssRun
  \/ \E ok \in BOOLEAN : WssConnect(ok)
  \/ \E ok \in BOOLEAN : WssSubscribe(ok)
  \/ WssStreamLost
  \/ WssStopRequested
  \/ WssSleepDone

SpecWss == WssInit /\ [][WssNext]_vars

SlotInit ==
  /\ IndexSlotManager_new
  /\ ClientInit
  /\ TestInit

SlotNext ==
  \/ \E c \in Clients : ClientAcquireSem(c)
  \/ \E c \in Clients : ClientAcquireLock(c)
  \/ \E c \in Clients : ClientAcquireBody(c)
  \/ \E c \in Clients : ClientReleaseIndexLock(c)
  \/ \E c \in Clients : ClientReleaseIndexBody(c)
  \/ \E c \in Clients : ClientDropLease(c)
  \/ \E c \in Clients : ClientReleaseNonce(c)
  \/ \E i \in Idx : SpawnedReleaseIndex(i)
  \/ \E i \in Idx : SpawnedReleaseNonce(i)

SpecSlot == SlotInit /\ [][SlotNext]_vars

\* the slot manager with callers of the legacy API that release indices they
\* do not hold
LegacyClients == {1}

LegacyNext ==
  \/ \E c \in LegacyClients : ClientAcquireSem(c)
  \/ \E c \in LegacyClients : ClientAcquireLock(c)
  \/ \E c \in LegacyClients : ClientAcquireBody(c)
  \/ \E c \in LegacyClients : ClientReleaseIndexLock(c)
  \/ \E c \in LegacyClients : ClientReleaseIndexBody(c)
  \/ \E c \in LegacyClients : ClientDropLease(c)
  \/ \E c \in LegacyClients : ClientReleaseNonce(c)
  \/ \E idx \in AnyIdx : StrayReleaseNonce(idx)
  \/ \E i \in Idx : SpawnedReleaseIndex(i)
  \/ \E i \in AnyIdx : SpawnedReleaseNonce(i)

SpecLegacy == SlotInit /\ [][LegacyNext]_vars

(***************************************************************************)
(* The broadcaster on its own: calls of send_on_many_rpc, one at a time,   *)
(* on an RpcManager of any endpoints and configuration.                    *)
(***************************************************************************)
SendInit ==
  /\ IndexSlotManager_new
  /\ ClientInit
  /\ BuyEngine_new
  /\ cfg = [nonce_count |-> 1, tx_builder |-> FALSE, mock_mode |-> TRUE]
  /\ app_state.mode = Sniffing
  /\ RpcManager_new
  /\ CandidateBuffer_none
  /\ SnifferRunner_none
  /\ WssSource_none

SendNext ==
  \/ \E m \in 0..MaxTxs : SendCall(m)
  \/ \E i \in 1..MaxEndpoints : TaskRespond(i)
  \/ \E i \in 1..MaxEndpoints : TaskTimeout(i)
  \/ JoinNext
  \/ SendDone

SpecSend == SendInit /\ [][SendNext]_vars

\* the runtime runs every spawned task and the joining caller, and the timer
\* of timeout() fires
SendFairness ==
  /\ WF_vars(JoinNext)
  /\ \A i \in 1..MaxEndpoints : WF_vars(TaskRespond(i)) /\ WF_vars(TaskTimeout(i))

SpecSendFair == SendInit /\ [][SendNext]_vars /\ SendFairness

\* the candidate buffer alone
BufInit ==
  /\ IndexSlotManager_new
  /\ ClientInit
  /\ BuyEngine_new
  /\ cfg = [nonce_count |-> 1, tx_builder |-> FALSE, mock_mode |-> TRUE]
  /\ app_state.mode = Sniffing
  /\ RpcManager_none
  /\ CandidateBuffer_new
  /\ SnifferRunner_none
  /\ WssSource_none

BufNext ==
  \/ \E c \in BufCandidates : BufPush(c)
  \/ BufPopBest
  \/ BufCleanup
  \/ BufTick

SpecBuf == BufInit /\ [][BufNext]_vars

\* the sniffer runner alone
RunnerInit ==
  /\ IndexSlotManager_new
  /\ ClientInit
  /\ BuyEngine_new
  /\ cfg = [nonce_count |-> 1, tx_builder |-> FALSE, mock_mode |-> TRUE]
  /\ app_state.mode = Sniffing
  /\ RpcManager_none
  /\ CandidateBuffer_none
  /\ SnifferRunner_new
  /\ WssSource_none

RunnerNext ==
  \/ RunnerTick
  \/ HttpSleepDone
  \/ \E ok \in BOOLEAN : HttpPolled(ok)
  \/ WssChange

SpecRunner == RunnerInit /\ [][RunnerNext]_vars

(***************************************************************************)
(* Properties.                                                             *)
(***************************************************************************)
\* the leases that are handed out and not yet released
Leased == {c \in Clients : cl[c].pc \in {"holding", "release_locked"}}

\* C1: the indices handed out and not yet released are pairwise distinct and
\* each lies in [0, capacity), under any interleaving of acquires and releases
C1_IndicesDistinct ==
  \A c1 \in Leased : \A c2 \in Leased :
    /\ cl[c1].idx \in Idx
    /\ (c1 # c2 => cl[c1].idx # cl[c2].idx)

RunBuySucceeds ==
  /\ by["run"].pc = "return"
  /\ by["run"].res = "ok"
  /\ by'["run"].pc = "loop"

\* C3: a buy of candidate c that succeeds while the state is Idle leaves the
\* state Holding(c.mint) with holdings 1.0, a recorded price, c as the active
\* candidate and a failure count of 0
C3_SuccessfulBuy ==
  [][(RunBuySucceeds /\ is_sniffing(app_state)) =>
       /\ app_state'.mode = PassiveToken(by["run"].cand.mint)
       /\ app_state'.holdings_percent = Unit
       /\ app_state'.last_buy_price # NoPrice
       /\ app_state'.active_token = by["run"].cand
       /\ consecutive_failures' = 0]_vars

\* a buy has succeeded and the main loop is back at the top of its loop
C3_Witness ==
  /\ by["run"].pc = "loop"
  /\ app_state.mode = PassiveToken(2)
  /\ app_state.holdings_percent = Unit
  /\ app_state.active_token.mint = 2

\* C4: a sell(p) that snapshots Holding with holdings h and whose broadcast
\* succeeds commits h * (1 - p); the state is Idle with candidate and price
\* cleared exactly when the new holdings are <= epsilon, and otherwise is
\* Holding on the snapshotted asset with the reduced holdings
C4_SellCommits ==
  [][\A s \in RaceSellers :
       /\ (sl[s].pc = "snapshot" /\ sl'[s].pc = "build") =>
            /\ sl'[s].new_holdings = NewHoldings(app_state.holdings_percent, sl[s].pct)
            /\ sl'[s].mint = app_state.mode.mint
       /\ (sl[s].pc = "commit" /\ sl'[s].pc = "idle") =>
            /\ app_state'.holdings_percent = sl[s].new_holdings
            /\ IF sl[s].new_holdings <= EPSILON
                 THEN /\ app_state'.mode = Sniffing
                      /\ app_state'.active_token = NoCandidate
                      /\ app_state'.last_buy_price = NoPrice
                 ELSE /\ app_state'.mode = PassiveToken(sl[s].mint)
                      /\ app_state'.active_token.mint = sl[s].mint
                      /\ app_state'.last_buy_price # NoPrice]_vars

\* the position is unchanged by the step, no broadcast was made by the call
\* of seller s and the call has returned
SellRejected(s) ==
  /\ UNCHANGED app_state
  /\ sl'[s].pc = "idle"
  /\ ~sl'[s].sent

\* C5 as claimed: every sell issued on the engine while its buy-pending flag
\* is set returns the race-protection error, broadcasts nothing and leaves the
\* position unchanged
C5_SellWhilePending ==
  [][\A s \in Sellers : \A p \in PercentInputs :
       (SellCall(s, p, "engine") /\ pending_buy) =>
         (sl'[s].result = "buy_in_progress" /\ SellRejected(s))]_vars

\* C5 as amended: the same for every percentage that is not NaN; a NaN
\* percentage is rejected as invalid before the flag is read, with the same
\* frame
C5_SellWhilePendingFinite ==
  [][\A s \in Sellers : \A p \in PercentInputs :
       (SellCall(s, p, "engine") /\ pending_buy) =>
         /\ SellRejected(s)
         /\ sl'[s].result = IF p = NaN THEN "invalid_percentage" ELSE "buy_in_progress"]_vars

\* a sell was turned away by the race guard while a position is held and a
\* guarded buy is in flight
C5_Witness ==
  /\ pending_buy
  /\ by["guard"].pc = "broadcast"
  /\ app_state.mode.tag = "PassiveToken"
  /\ \E s \in Sellers : sl[s].pc = "idle" /\ sl[s].result = "buy_in_progress"

\* the main loop is inside try_buy
RunInTryBuy ==
  by["run"].pc \in {"acquire_sem", "acquire_lock", "acquire_body", "build",
                    "builder_lock", "builder_body", "builder_finish",
                    "broadcast", "release", "return"}

\* C6: the buy-pending flag is set for the whole duration of every buy
\* attempt of the main loop
C6_PendingDuringBuy == RunInTryBuy => pending_buy

\* C7: last_buy_price and active_token are defined exactly when the mode is
\* Holding (each of them, hence both)
C7_HoldingIffDefined ==
  /\ app_state.last_buy_price # NoPrice <=> app_state.mode.tag = "PassiveToken"
  /\ app_state.active_token # NoCandidate <=> app_state.mode.tag = "PassiveToken"

\* the engine is back in Sniffing after a full sell while another sell is
\* still in flight
C7_Witness ==
  /\ app_state.mode = Sniffing
  /\ \E s \in RaceSellers : sl[s].result = "ok"
  /\ \E s \in RaceSellers : sl[s].pc = "commit"

\* the step in which the main loop takes the Err(e) arm of try_buy
RunBuyFails ==
  /\ by["run"].pc = "return"
  /\ by["run"].res = "err"
  /\ by'["run"].pc = "loop"

\* C8: a failed buy attempt leaves the position as it was and increments the
\* consecutive-failure count by one
C8_FailedBuyCounts ==
  [][RunBuyFails =>
       /\ UNCHANGED app_state
       /\ consecutive_failures' = consecutive_failures + 1]_vars

\* C9: when the broadcast of an attempt has completed and try_buy returns,
\* every slot acquired during the attempt, by try_buy itself or by the
\* transaction builder it called, has been released
C9_SlotsReleased ==
  [][(by["run"].pc = "release" /\ by'["run"].pc = "return") =>
       /\ by'["run"].acquired = <<>>
       /\ by'["run"].guards = <<>>]_vars

\* C10: a sell whose transaction construction or broadcast fails returns that
\* error and ends; none of its steps but the commit after a successful
\* broadcast writes the position
C10_FailedSell ==
  [][\A s \in Sellers :
       /\ (sl[s].pc \in {"build", "builder_lock", "builder_body", "builder_finish"}
             /\ sl'[s].pc = "idle") =>
            (sl'[s].result = "build_failed" /\ ~sl'[s].sent)
       /\ (sl[s].pc = "broadcast" /\ sl'[s].pc = "idle") =>
            sl'[s].result = "broadcast_failed"
       /\ (sl'[s] # sl[s] /\ sl[s].pc # "commit") => UNCHANGED app_state]_vars

\* a sell failed at the broadcast while a position is held
C10_Witness ==
  /\ app_state.mode.tag = "PassiveToken"
  /\ app_state.holdings_percent = Unit
  /\ \E s \in Sellers : sl[s].pc = "idle" /\ sl[s].result = "broadcast_failed" /\ sl[s].sent

\* C11: a sell that finds the mode Sniffing or QuantumManual when it reads
\* the position returns the not-in-PassiveToken error, has broadcast nothing
\* and leaves the position unchanged
C11_SellNotHolding ==
  [][\A s \in Sellers :
       (SellSnapshot(s) /\ app_state.mode.tag # "PassiveToken") =>
         (sl'[s].result = "not_passive" /\ SellRejected(s))]_vars

\* a sell was turned away in QuantumManual mode
C11_Witness ==
  /\ app_state.mode = QuantumManual
  /\ \E s \in Sellers : sl[s].pc = "idle" /\ sl[s].result = "not_passive" /\ ~sl[s].sent

\* the task whose result the next turn of the join loop takes
JoinedTask == join_set[Head(completed)]

\* no task of the set is still running
NoneRunning(js) == \A k \in DOMAIN js : js[k].st # "running"

\* C12: when the join loop takes the result of a task that succeeded, send
\* returns that task's signature and no other task of the call is left
\* running; the loop never goes on past a success, so no later result can
\* change the value returned
C12_FirstSuccessReturns ==
  [][/\ (JoinNext /\ JoinedTask.res.ok) =>
          /\ send'.pc = "returned"
          /\ send'.ret = SendOk(JoinedTask.tx)
          /\ NoneRunning(join_set')
     /\ send'.pc = "join" =>
          \A k \in DOMAIN join_set' : join_set'[k].st = "joined" => ~join_set'[k].res.ok]_vars

\* send has returned a success and a task of the call was cancelled
C12_Witness ==
  /\ send.pc = "returned"
  /\ send.ret.ok
  /\ \E k \in DOMAIN join_set : join_set[k].st = "aborted"

\* the tasks joined so far that failed with an error of the fatal class
FatalJoined(js) ==
  {k \in DOMAIN js : js[k].st = "joined" /\ ~js[k].res.ok
                       /\ is_fatal_error_type(js[k].res.err.source)}

\* C13: a send that issued tasks returns success exactly when the endpoint
\* of at least one of its tasks accepts the transaction, whatever the order
\* of completion; when it fails, the error carries the number of fatal-class
\* errors the call has seen
C13_SuccessIffSomeTask ==
  (send.pc = "returned" /\ join_set # <<>>) =>
    /\ send.ret.ok <=> \E k \in DOMAIN join_set : endpoints[join_set[k].endpoint] = "ok"
    /\ ~send.ret.ok => send.ret.fatal_errors = Cardinality(FatalJoined(join_set))

\* C14: when the result taken by the join loop is a fatal-class error that
\* brings the number of such errors to the threshold, every remaining task
\* is cancelled and send fails at once; an error outside the fatal class
\* cancels nothing
C14_EarlyCancellation ==
  [][(JoinNext /\ ~JoinedTask.res.ok) =>
       IF is_fatal_error_type(JoinedTask.res.err.source)
         THEN (/\ rpc_cfg.early_cancel_threshold >= 1
               /\ Cardinality(FatalJoined(join_set')) >= rpc_cfg.early_cancel_threshold) =>
                 /\ send'.pc = "returned"
                 /\ ~send'.ret.ok
                 /\ NoneRunning(join_set')
         ELSE \A k \in DOMAIN join_set :
                join_set[k].st = "running" => join_set'[k].st = "running"]_vars

\* C15: under Pairwise a call with N endpoints and M transactions issues
\* min(N, M) tasks, the i-th sending transaction i to endpoint i; with no
\* endpoint or no transaction it issues none and fails
C15_PairwiseTasks ==
  [][\A m \in 0..MaxTxs :
       (SendCall(m) /\ rpc_cfg.broadcast_mode = "Pairwise") =>
         IF Len(endpoints) = 0 \/ m = 0
           THEN /\ join_set' = <<>>
                /\ send'.pc = "returned"
                /\ ~send'.ret.ok
           ELSE /\ Len(join_set') = (IF Len(endpoints) < m THEN Len(endpoints) ELSE m)
                /\ \A i \in DOMAIN join_set' :
                     /\ join_set'[i].tx = txs'[i]
                     /\ join_set'[i].endpoint = i
                     /\ join_set'[i].st = "running"]_vars

\* a Pairwise call with two endpoints and two transactions has issued its
\* two tasks
C15_Witness ==
  /\ rpc_cfg.broadcast_mode = "Pairwise"
  /\ Len(endpoints) = 2
  /\ Len(txs) = 2
  /\ send.pc = "join"
  /\ Len(join_set) = 2

\* the (transaction, endpoint) pairs a strategy is to issue
StrategyPairs(mode, n, m) ==
  CASE mode = "Replicate" -> {<<1, e>> : e \in 1..n}
    [] mode = "RoundRobin" -> {<<t, ((t - 1) % n) + 1>> : t \in 1..m}
    [] mode = "FullFanout" -> (1..m) \X (1..n)
    [] OTHER -> {<<i, i>> : i \in 1..(IF n < m THEN n ELSE m)}

\* C16: with N endpoints and M transactions Replicate issues N tasks that
\* all carry one transaction, RoundRobin M tasks with transaction i on
\* endpoint i mod N, FullFanout the N x M tasks of every pair
C16_StrategyHonoured ==
  [][\A m \in 1..MaxTxs :
       (SendCall(m) /\ Len(endpoints) > 0) =>
         LET want == StrategyPairs(rpc_cfg.broadcast_mode, Len(endpoints), m)
             issued == {<<join_set'[k].tx, join_set'[k].endpoint>> : k \in DOMAIN join_set'}
         IN /\ issued = want
            /\ Len(join_set') = Cardinality(want)]_vars

\* C17: every call that has issued its tasks returns, and returns a success
\* when the endpoint of one of its tasks accepts the transaction, also when
\* another endpoint never answers
C17_SendTerminates ==
  /\ (send.pc = "join") ~> (send.pc = "returned")
  /\ (send.pc = "join" /\ \E k \in DOMAIN join_set : endpoints[join_set[k].endpoint] = "ok")
       ~> (send.pc = "returned" /\ send.ret.ok)

\* send has returned the success of one endpoint after the task on an
\* endpoint that never answers has timed out
C17_Witness ==
  /\ send.pc = "returned"
  /\ send.ret.ok
  /\ \E k \in DOMAIN join_set :
       /\ endpoints[join_set[k].endpoint] = "hung"
       /\ join_set[k].st = "joined"
       /\ join_set[k].res.err = rpc_send_timeout

\* the leases and legacy holders of index i
Holders(i) == {c \in Leased : cl[c].idx = i}

\* C18: an acquire completes only while fewer than capacity leases are
\* outstanding, and the index it returns lies in [0, capacity)
C18_AcquireBlocksAtCapacity ==
  [][\A c \in Clients :
       (ClientAcquireBody(c) /\ cl'[c].pc = "holding") =>
         /\ Cardinality(Leased) < Capacity
         /\ cl'[c].idx \in Idx]_vars

\* the release spawned by the Drop of a lease that was released by hand runs
StaleDropRuns(i) ==
  /\ SpawnedReleaseIndex(i)
  /\ dropTasks'[i].stale < dropTasks[i].stale

\* C19: the automatic release on disposal of a lease that was released
\* explicitly before adds no entry to the free queue and no permit
C19_ReleasedOnce ==
  [][\A i \in Idx : StaleDropRuns(i) => (free' = free /\ sem' = sem)]_vars

\* C20: release_index(i) on an index that no lease and no legacy holder has
\* is rejected and leaves the free queue, the allocated set and the permits
\* as they were
C20_ReleaseNotLeased ==
  [][\A i \in Idx :
       (StaleDropRuns(i) /\ Holders(i) = {} /\ dropTasks[i].live = 0) =>
         /\ ~release_index_ok(i)
         /\ free' = free
         /\ allocated' = allocated
         /\ sem' = sem]_vars

\* C21: release_nonce(idx) with an index out of range or not currently held
\* is ignored: the free queue and the number of permits are what they were,
\* and no task is left behind that would change them later
C21_StrayReleaseIgnored ==
  [][\A idx \in AnyIdx : StrayReleaseNonce(idx) =>
       /\ free' = free
       /\ sem' = sem
       /\ legacyTasks' = legacyTasks]_vars

\* the keys of the insertion order are those of the map, each once
OneEntryPerMint ==
  /\ Len(insertion_order) = Cardinality(DOMAIN map)
  /\ \A i \in DOMAIN insertion_order :
       /\ contains_key(map, insertion_order[i].key)
       /\ map[insertion_order[i].key].seq = insertion_order[i].seq

\* what C22 says of a push, while only pushes have been made and the distinct
\* mints pushed do not exceed the capacity
PushKeepsDistinct(c) ==
  /\ Cardinality(DOMAIN map') = Cardinality(buf_hist'.pushed)
  /\ c.mint \in buf_hist.pushed =>
       /\ ~buf_ret'.inserted
       /\ map' = map
       /\ insertion_order' = insertion_order

\* less than the ttl has passed since the first push
NothingExpired == buf_hist.pushed = {} \/ now - buf_hist.first_push_at < ttl

\* C22 as stated: after every sequence of pushes whose distinct mints do not
\* exceed the capacity, the size is the number of distinct mints pushed and a
\* push repeating a mint returns false and changes nothing; the buffer never
\* holds two entries for one mint
C22_PushDedup ==
  [][\A c \in BufCandidates : BufPush(c) =>
       /\ OneEntryPerMint'
       /\ (buf_hist.only_pushes /\ Cardinality(buf_hist'.pushed) <= max_size)
            => PushKeepsDistinct(c)]_vars

\* C22, amended: the same for the sequences of pushes that end before the
\* first entry pushed reaches the ttl
C22_PushDedupUnexpired ==
  [][\A c \in BufCandidates : BufPush(c) =>
       /\ OneEntryPerMint'
       /\ (buf_hist.only_pushes /\ Cardinality(buf_hist'.pushed) <= max_size
             /\ NothingExpired)
            => PushKeepsDistinct(c)]_vars

\* a repeated mint has been refused with two distinct mints in the buffer
C22_Witness ==
  /\ buf_ret.op = "push"
  /\ ~buf_ret.inserted
  /\ buf_hist.only_pushes
  /\ Cardinality(buf_hist.pushed) = 2
  /\ Cardinality(DOMAIN map) = 2

\* the mints whose entries are younger than the ttl
Live == {k \in DOMAIN map : now - map[k].seen_at < ttl}

\* the live entry inserted first
OldestLive == CHOOSE k \in Live : \A j \in Live : map[k].seq <= map[j].seq

\* C23: pop_best returns the candidate of the live entry with the smallest
\* sequence number, none when no entry is live; once as many pops as inserted
\* pushes have followed the pushes, the buffer is empty and a pop returns none
C23_PopOldestFirst ==
  [][BufPopBest =>
       /\ buf_ret'.cand = IF Live = {} THEN NoCand ELSE map[OldestLive].cand
       /\ Live # {} => DOMAIN map' = Live \ {OldestLive}
       /\ buf_hist'.pops_since_push >= buf_hist.inserted => map' = <<>>
       /\ buf_hist.pops_since_push >= buf_hist.inserted => buf_ret'.cand = NoCand]_vars

\* a pop has returned a candidate and left a younger one behind
C23_Witness ==
  /\ buf_ret.op = "pop_best"
  /\ buf_ret.cand # NoCand
  /\ map # <<>>
  /\ \A k \in DOMAIN map : map[k].seq > 1

\* the entry inserted first among those in the buffer
Oldest == CHOOSE k \in DOMAIN map : \A j \in DOMAIN map : map[k].seq <= map[j].seq

\* what C24 says of a push of a mint the buffer does not hold: the oldest
\* entry goes, the new one comes, nothing else changes
EvictsOldest(c) ==
  /\ buf_ret'.inserted
  /\ DOMAIN map' = (DOMAIN map \ {Oldest}) \cup {c.mint}
  /\ \A k \in DOMAIN map \ {Oldest} : map'[k] = map[k]
  /\ Cardinality(DOMAIN map') = max_size

\* C24 as stated: the size never exceeds the capacity, and a push of a new
\* mint into a buffer that is at capacity evicts exactly the oldest entry
C24_EvictsOldestAtCapacity ==
  [][\A c \in BufCandidates : BufPush(c) =>
       /\ Cardinality(DOMAIN map') <= max_size
       /\ max_size >= 1
       /\ (Cardinality(DOMAIN map) = max_size /\ ~contains_key(map, c.mint))
            => EvictsOldest(c)]_vars

\* C24, amended: the same for a buffer that holds as many live entries as
\* the capacity
C24_EvictsOldestOfLive ==
  [][\A c \in BufCandidates : BufPush(c) =>
       /\ Cardinality(DOMAIN map') <= max_size
       /\ max_size >= 1
       /\ (Cardinality(Live) = max_size /\ ~contains_key(map, c.mint))
            => EvictsOldest(c)]_vars

\* with no time passed, the first of three entries has made room for the third
C24_Witness ==
  /\ buf_ret.op = "push"
  /\ buf_ret.inserted
  /\ now = 0
  /\ ttl > 0
  /\ max_size = 2
  /\ {map[k].seq : k \in DOMAIN map} = {2, 3}

\* C25: pop_best returns only candidates of entries younger than the ttl;
\* cleanup removes exactly the entries that have reached the ttl and returns
\* their number; with ttl = 0 cleanup leaves nothing and pop_best returns none
C25_ExpiredNeverReturned ==
  [][/\ BufPopBest =>
          /\ buf_ret'.cand # NoCand => \E k \in Live : map[k].cand = buf_ret'.cand
          /\ ttl = 0 => buf_ret'.cand = NoCand
     /\ BufCleanup =>
          /\ DOMAIN map' = Live
          /\ \A k \in Live : map'[k] = map[k]
          /\ buf_ret'.removed = Cardinality(DOMAIN map \ Live)
          /\ ttl = 0 => map' = <<>>]_vars

\* a cleanup has removed an expired entry and kept a live one
C25_Witness ==
  /\ buf_ret.op = "cleanup"
  /\ buf_ret.removed >= 1
  /\ map # <<>>

\* C26: at most one task runs the polling fallback at any time
C26_SingleFallback == Running <= 1

\* C27: a turn of the watchdog that finds the live source unhealthy, with
\* live-only not mandated, the fallback enabled and no fallback task running,
\* starts the fallback
C27_FallbackStarted ==
  [][(/\ RunnerTick
      /\ ~wss_healthy
      /\ ~runner_cfg.wss_required
      /\ runner_cfg.http_fallback_enabled
      /\ Running = 0)
       => (tick' = "start" /\ Running' = 1)]_vars

\* C28: a turn of the watchdog that finds the live source healthy while a
\* fallback task is running requests the fallback to stop
C28_FallbackStopRequested ==
  [][(RunnerTick /\ wss_healthy /\ Running > 0) => tick' = "stop"]_vars

\* C29: with live-only mandated or the fallback disabled, no turn of the
\* watchdog starts the fallback and no fallback task ever runs
C29_NoFallbackWhenLiveOnly ==
  (runner_cfg.wss_required \/ ~runner_cfg.http_fallback_enabled)
    => (Running = 0 /\ tick # "start")

\* the watchdog has found the live source unhealthy with live-only mandated
\* and the fallback enabled, and has only waited
C29_Witness ==
  /\ runner_cfg.wss_required
  /\ runner_cfg.http_fallback_enabled
  /\ ~wss_healthy
  /\ tick = "wait"
  /\ Running = 0

\* the candidate channel is closed and drained while the main loop runs
ClosedAndDrained == ~chanOpen /\ chan = <<>> /\ by["run"].pc # "stopped"

\* C30: once the candidate channel is closed and drained, the main loop
\* exits in the end, in every position state
C30_LoopExitsOnClose == ClosedAndDrained ~> by["run"].pc = "stopped"

\* a step of the main loop's buy attempt that takes a slot or broadcasts
RunBuyStep ==
  \/ \E v \in ValidatorAnswers : RunRecvCandidate(v) /\ by'["run"].pc = "acquire_sem"
  \/ TryBuyAcquireSem("run")
  \/ TryBuyAcquireBody("run")
  \/ TryBuyBuilderSem("run")
  \/ TryBuyBroadcast("run")

\* C31: the main loop takes slots and broadcasts only while the state is
\* Sniffing; in the other modes a candidate received is dropped with the
\* slot manager untouched, and the state never goes from holding one mint
\* to holding another
C31_BuyOnlyWhenIdle ==
  [][/\ RunBuyStep => is_sniffing(app_state)
     /\ (RunRecvPassive \/ \E v \in ValidatorAnswers : RunRecvCandidate(v)) /\ ~is_sniffing(app_state) =>
          /\ by'["run"] = RunAtLoop
          /\ UNCHANGED <<slotVars, app_state>>
     /\ (app_state.mode.tag = "PassiveToken" /\ app_state'.mode.tag = "PassiveToken") =>
          app_state'.mode.mint = app_state.mode.mint]_vars

\* the main loop holds a token and is about to drop a candidate
C31_Witness ==
  /\ app_state.mode.tag = "PassiveToken"
  /\ by["run"].pc = "recv_passive"
  /\ chan # <<>>
  /\ Head(chan).mint # app_state.mode.mint

\* ---------------------------------------------------------------------------
\* C32
\* ---------------------------------------------------------------------------

\* the candidate fails the security validation, the per-mint rate limiter or
\* the interest filter
Rejected(c, v) ==
  \/ ~validate_candidate(c, v)
  \/ ~check_mint_rate_limit(v)
  \/ ~is_candidate_interesting(c)

\* C32: a candidate that is rejected by the security validation, by the
\* per-asset rate limiter or by the interest filter is dropped: the loop goes
\* back to its top, no slot is acquired, nothing is broadcast, and neither the
\* position state nor the backoff state changes.
C32_RejectedCandidateDropped ==
  [][\A v \in ValidatorAnswers :
       (RunRecvCandidate(v) /\ Rejected(Head(chan), v)) =>
          /\ by'["run"] = RunAtLoop
          /\ UNCHANGED <<slotVars, sendVars, app_state, consecutive_failures, pending_buy>>]_vars

C32_Witness ==
  /\ by["run"].pc = "recv"
  /\ chan # <<>>
  /\ Head(chan).mint # DefaultPubkey
  /\ Head(chan).creator # DefaultPubkey
  /\ Head(chan).program = "raydium"

\* ---------------------------------------------------------------------------
\* C33
\* ---------------------------------------------------------------------------

\* the places where the main loop holds the guard of app_state: the snapshot
\* of is_sniffing and the commit of a successful buy
RunLockScopes == {"loop", "return"}

\* the places where sell holds it: the snapshot and the commit of the Ok(sig) arm
SellLockScopes == {"snapshot", "commit"}

\* C33: the lock on the position state is never held by a task that is in a
\* network call (broadcast), in a slot acquisition or in a sleep: the main
\* loop and sell hold it only inside their snapshot and commit blocks, and
\* try_buy never holds it.
C33_LockOnlyToSnapshotOrCommit ==
  /\ app_lock.kind \in {"none", "run", "sell"}
  /\ app_lock.kind = "run" => by["run"].pc \in RunLockScopes
  /\ app_lock.kind = "sell" => sl[app_lock.id].pc \in SellLockScopes

\* a seller holds the lock for its commit while the main loop is running
C33_Witness ==
  /\ app_lock.kind = "sell"
  /\ sl[app_lock.id].pc = "commit"
  /\ sl[app_lock.id].sent
  /\ by["run"].pc # "stopped"

\* ---------------------------------------------------------------------------
\* C34
\* ---------------------------------------------------------------------------

\* C34: a main loop that finds a non-zero consecutive-failure count sleeps for
\* the delay owed and then goes on to wait for the next candidate, so that a
\* recorded failure never stalls the loop for ever.
C34_BackoffThenRecv ==
  (by["run"].pc = "backoff_sleep") ~> (by["run"].pc = "recv")

\* ---------------------------------------------------------------------------
\* C35
\* ---------------------------------------------------------------------------

\* the count as a u32 is 2^31 or more
AtLeastTwoTo31(k) == k < 0

\* min(100 ms * 2^(k-1), 10 000 ms) for a count k >= 1
ClaimedDelay(k) ==
  IF AtLeastTwoTo31(k) \/ k > 20 THEN max_delay_ms
  ELSE Min(base_delay_ms * 2^(k - 1), max_delay_ms)

\* C35: should_backoff owes no delay at a count of 0 and, at a count k >= 1,
\* the delay min(100 ms * 2^(k-1), 10 000 ms), which never exceeds the maximum.
C35_DelayFormula ==
  backoff_ret.called =>
    /\ backoff_ret.failures = 0 => backoff_ret.delay = None
    /\ backoff_ret.failures # 0 =>
         /\ backoff_ret.delay = Some(ClaimedDelay(backoff_ret.failures))
         /\ backoff_ret.delay.ms <= max_delay_ms

\* the same for counts up to 2^31
C35_DelayFormulaBelowWrap ==
  (backoff_ret.called /\ (backoff_ret.failures >= 0 \/ backoff_ret.failures = I32Min)) =>
    /\ backoff_ret.failures = 0 => backoff_ret.delay = None
    /\ backoff_ret.failures # 0 =>
         backoff_ret.delay = Some(ClaimedDelay(backoff_ret.failures))

\* ---------------------------------------------------------------------------
\* C36
\* ---------------------------------------------------------------------------

\* the backoff after n doublings of the configured base, capped at the maximum
BackoffAfter(n) ==
  Min(wss_cfg.wss_reconnect_backoff_ms * 2^n, wss_cfg.wss_reconnect_backoff_max_ms)

\* C36: the live source's reconnect backoff starts at the configured base,
\* doubles after every failed connect or subscribe and after every lost
\* connection, never exceeds the configured maximum, and is back at the base
\* after a successful subscription: the n-th sleep since run began or since the
\* last subscription lasts min(base * 2^(n-1), max).
C36_ReconnectBackoff ==
  wss_pc \notin {"none", "new"} =>
    /\ \A n \in 1..Len(wss_slept) : wss_slept[n] = BackoffAfter(n - 1)
    /\ wss_backoff = BackoffAfter(Len(wss_slept))
    /\ wss_backoff >= wss_cfg.wss_reconnect_backoff_ms
    /\ wss_backoff <= wss_cfg.wss_reconnect_backoff_max_ms

\* two sleeps were made, the second at the maximum and shorter than twice the
\* first, and the source connects again
C36_Witness ==
  /\ wss_pc = "connect"
  /\ wss_backoff = wss_cfg.wss_reconnect_backoff_max_ms
  /\ Len(wss_slept) >= 2
  /\ wss_slept[2] < 2 * wss_slept[1]

\* ---------------------------------------------------------------------------
\* C37
\* ---------------------------------------------------------------------------

\* create_buy_transaction returns Err to try_buy, which returns
BuildFails(b) ==
  /\ by[b].pc \in {"build", "builder_body", "builder_finish"}
  /\ by'[b].pc = "return"

\* C37: when the construction of a transaction fails after try_buy has
\* acquired slots, try_buy returns with every slot it acquired in the attempt
\* released: none is still held by the attempt that failed.
C37_BuildFailureReleases ==
  [][\A b \in Buyers : BuildFails(b) => by'[b].acquired = <<>>]_vars

\* ---------------------------------------------------------------------------
\* C38
\* ---------------------------------------------------------------------------

\* the main loop's try_buy waits for a slot, for itself or in the builder
WaitsForSlot == by["run"].pc \in {"acquire_sem", "builder_sem"}

\* C38: with nonce_count equal to the capacity of the slot manager, a try_buy
\* that waits for a slot does not wait for ever: the attempt reaches the
\* broadcast or returns an error, also when the transaction builder takes a
\* slot of its own from the same manager.
C38_TryBuyNeverBlocks ==
  (WaitsForSlot /\ cfg.nonce_count = Capacity)
    ~> (by["run"].pc \in {"broadcast", "return"})

\* ---------------------------------------------------------------------------
\* C39
\* ---------------------------------------------------------------------------

\* seller s writes its new holdings in the Ok(sig) arm
Commits(s) == SellCommit(s)

\* the position is still the one seller s took its snapshot of
SnapshotStillCurrent(s) ==
  /\ app_state.mode = PassiveToken(sl[s].mint)
  /\ sl[s].new_holdings = NewHoldings(app_state.holdings_percent, sl[s].pct)

\* C39: a sell commits only against the state it snapshotted: when it writes
\* its new holdings, mode and holdings are still what they were at its
\* snapshot, so that no sell overwrites what another sell or a buy has written
\* in between (two sells of p1 and p2 on h leave h * (1 - p1) * (1 - p2)).
C39_CommitAgainstSnapshot ==
  [][\A s \in RaceSellers : Commits(s) => SnapshotStillCurrent(s)]_vars

\* ---------------------------------------------------------------------------
\* C40
\* ---------------------------------------------------------------------------

\* the mints in the insertion-order queue
QueuedKeys == {insertion_order[i].key : i \in DOMAIN insertion_order}

\* C40: the buffer's map and its insertion-order queue hold exactly the same
\* mints, each once in the queue, with the same sequence stamp in both, and
\* the stamps in the queue increase strictly from front to back.
C40_BufferConsistent ==
  /\ QueuedKeys = DOMAIN map
  /\ \A i, j \in DOMAIN insertion_order :
       i < j => /\ insertion_order[i].key # insertion_order[j].key
                /\ insertion_order[i].seq < insertion_order[j].seq
  /\ \A i \in DOMAIN insertion_order :
       map[insertion_order[i].key].seq = insertion_order[i].seq

\* an entry is left in the queue after the one before it has expired and has
\* been swept
C40_Witness ==
  /\ Len(insertion_order) = 1
  /\ insertion_order[1].seq > 1
  /\ buf_ret.op = "cleanup"
  /\ buf_ret.removed > 0
====
